---- MODULE Spec2Model ----
(***************************************************************************)
(* State-machine model of the mfc-control core: the FlowDevice connection  *)
(* lifecycle (core/mfc.py), the MFCController registry and its bulk        *)
(* operations (core/controller.py) and the SafetyManager purge and         *)
(* emergency-stop sequences (core/safety.py).                              *)
(*                                                                         *)
(* The controller is the default MFCController(), use_mock=False.  The     *)
(* transport behind a handle is the environment: acquiring a handle and    *)
(* every write or read through it may succeed or raise, and the device     *)
(* side setpoint parameter changes only when a setpoint write succeeds.    *)
(* A node keeps its setpoint while its device is disconnected; it is       *)
(* tracked from registration to removal.                                   *)
(***************************************************************************)
EXTENDS Integers, Sequences, FiniteSets, TLC

\* ------------------------------------------------------------------------
\* Universe and bounds
\* ------------------------------------------------------------------------

\* Names a caller may register controllable devices under.  Each device is
\* named after its gas, as create_standard_controller does; N2 has no
\* default calibration table.
MfcNames == {"Air", "CH4", "N2"}

\* Names a caller may register read-only meters under.  The meter shares its
\* name with a controllable device: _mfcs and _cori_flows are separate dicts.
CoriNames == {"Air"}

\* Most controllable devices the caller registers at a time.
MaxMfcs == 2

\* SafetyManager.purge_flow (MFC units).
PurgeFlow == 30

\* Largest flow value a caller commands through set_flow_mfc.
MaxFlow == 1

\* The threads of the hosting application.
Threads == {"main", "aux"}

\* FlowDeviceBase.instrument when no handle is attached.
None == "None"

\* Values the device-side setpoint parameter can hold.
FlowValues == (0..MaxFlow) \cup {PurgeFlow}

\* Arguments a caller passes to set_flow_mfc (one of them negative).
FlowArgs == (-1)..MaxFlow

VARIABLES
    mfcs,         \* MFCController._mfcs: name -> MFC object
    mfcs_order,   \* insertion order of the keys of _mfcs
    cori_flows,   \* MFCController._cori_flows: name -> CoriFlowMeter object
    cori_order,   \* insertion order of the keys of _cori_flows
    setpoint,     \* device-side SETPOINT parameter of each registered node
    pc,           \* per thread: position inside SafetyManager.purge
    air_name,     \* per thread: purge's local air_name
    it,           \* per thread: purge's position in the mfc_items() iteration
    call,         \* per thread: the current or last call, its outcome and
                  \* the transport/device events it produced, in order
    pending,      \* per thread: the assignment to _last_setpoint_mfc that
                  \* follows a setpoint write the transport has accepted
    calibrations, \* the Calibration objects of DEFAULT_CALIBRATIONS, by gas
    cal,          \* a Calibration under construction: arguments and outcome
    conv          \* the conversions made on cal whose values the caller holds

vars == <<mfcs, mfcs_order, cori_flows, cori_order, setpoint, pc, air_name, it, call, pending, calibrations, cal, conv>>

\* ------------------------------------------------------------------------
\* Helpers
\* ------------------------------------------------------------------------

Range(s) == {s[i] : i \in 1..Len(s)}

\* A device of the controllable collection, of the read-only collection, and
\* the device field of an event that concerns no device.
Mfc(name) == <<"mfc", name>>
Cori(name) == <<"cori", name>>
NoDev == <<"none", "">>

\* One event of a call: a transport write or read, a handle attached or
\* released, a dwell; on device dev, with value val, accepted or not.
Ev(kind, dev, val, ok) == [ev |-> kind, dev |-> dev, val |-> val, ok |-> ok]

\* The record of a call: the operation, its argument, its outcome (a return
\* or the exception raised), its events and the value it returned.
Call(op, arg, result, trace) == [op |-> op, arg |-> arg, result |-> result, trace |-> trace, value |-> None]

\* The record of a call that returned a value.
Returning(c, value) == [c EXCEPT !.value = value]

NoCall == Call("none", "", "ok", <<>>)

\* The assignment a thread is about to make inside set_flow_mfc: the device,
\* the value, and where the thread continues afterwards.
Store(name, value, continue) == [name |-> name, value |-> value, continue |-> continue]

NoStore == Store("", 0, "")

\* Remove the element equal to x from a sequence without duplicates.
Without(s, x) == SelectSeq(s, LAMBDA y : y # x)

\* An empty dict.
EmptyDict == [x \in {} |-> None]

\* A function without key k (del d[k]).
Del(f, k) == [x \in (DOMAIN f) \ {k} |-> f[x]]

\* A dict whose entries all refer to the one object v.
Put_aliased(f, k, v) == [x \in (DOMAIN f) \cup {k} |-> v]

\* A function with key k bound to v (d[k] = v).
Put(f, k, v) == [x \in (DOMAIN f) \cup {k} |-> IF x = k THEN v ELSE f[x]]

\* ------------------------------------------------------------------------
\* Floats, as exact fractions <<numerator, denominator>> in lowest terms
\* ------------------------------------------------------------------------

Abs(n) == IF n < 0 THEN -n ELSE n

RECURSIVE GCD(_, _)
GCD(a, b) == IF b = 0 THEN a ELSE GCD(b, a % b)

\* The fraction n/d (d # 0), normalised.
Rat(n, d) ==
    LET g == GCD(Abs(n), Abs(d))
        sg == IF d < 0 THEN -1 ELSE 1
    IN  <<(sg * n) \div g, (sg * d) \div g>>

\* float(n) of an integer.
Float(n) == <<n, 1>>

RAdd(a, b) == Rat(a[1] * b[2] + b[1] * a[2], a[2] * b[2])
RSub(a, b) == Rat(a[1] * b[2] - b[1] * a[2], a[2] * b[2])
RMul(a, b) == Rat(a[1] * b[1], a[2] * b[2])
RDiv(a, b) == Rat(a[1] * b[2], a[2] * b[1])
RLess(a, b) == a[1] * b[2] < b[1] * a[2]
RLeq(a, b) == a[1] * b[2] <= b[1] * a[2]

\* ------------------------------------------------------------------------
\* FlowDeviceBase / MFC (core/mfc.py)
\* ------------------------------------------------------------------------

\* MFC(name, com_port, node_address, gas_type, calibration): a new object.
NewMFC(gas, calibration) == [gas_type |-> gas, calibration |-> calibration, instrument |-> None, connected |-> FALSE, last_setpoint |-> 0]

\* CoriFlowMeter(name, com_port, node_address, gas_type): a new object.
NewCori == [instrument |-> None, connected |-> FALSE]

\* FlowDeviceBase.is_connected
is_connected(d) == d.connected /\ d.instrument # None

\* A connect() that keeps a handle the device already holds.
connect_keepsHandle(d, inst) == IF d.instrument # None THEN d ELSE [d EXCEPT !.instrument = inst, !.connected = TRUE]

\* FlowDeviceBase.connect(instrument)
connect(d, inst) == [d EXCEPT !.instrument = inst, !.connected = TRUE]

\* A disconnect() that releases the handle and leaves the flag set.
disconnect_keepsFlag(d) == [d EXCEPT !.instrument = None]

\* FlowDeviceBase.disconnect()
disconnect(d) == [d EXCEPT !.instrument = None, !.connected = FALSE]

\* A set_flow_mfc that records the value before it writes it.
set_flow_mfc_recordsFirst(name, d, sp, v, ok) ==
    IF v < 0 THEN
        [result |-> "ValueError", dev |-> d, sp |-> sp, trace |-> <<>>]
    ELSE IF ~is_connected(d) THEN
        [result |-> "ConnectionError", dev |-> d, sp |-> sp, trace |-> <<>>]
    ELSE IF ~ok THEN
        [result |-> "TransportError", dev |-> [d EXCEPT !.last_setpoint = v], sp |-> sp, trace |-> <<Ev("write", Mfc(name), v, FALSE)>>]
    ELSE
        [result |-> "ok", dev |-> [d EXCEPT !.last_setpoint = v], sp |-> v, trace |-> <<Ev("write", Mfc(name), v, TRUE)>>]

\* A set_flow_mfc without the test for a negative value.
set_flow_mfc_unchecked(name, d, sp, v, ok) ==
    IF ~is_connected(d) THEN
        [result |-> "ConnectionError", dev |-> d, sp |-> sp, trace |-> <<>>]
    ELSE IF ~ok THEN
        [result |-> "TransportError", dev |-> d, sp |-> sp, trace |-> <<Ev("write", Mfc(name), v, FALSE)>>]
    ELSE
        [result |-> "ok", dev |-> [d EXCEPT !.last_setpoint = v], sp |-> v, trace |-> <<Ev("write", Mfc(name), v, TRUE)>>]

\* MFC.set_flow_mfc(mfc_value) on object d whose device-side setpoint is sp;
\* ok says whether the transport accepts the write.  Yields the outcome, the
\* new object, the new device-side setpoint and the transport events.
set_flow_mfc(name, d, sp, v, ok) ==
    IF v < 0 THEN
        [result |-> "ValueError", dev |-> d, sp |-> sp, trace |-> <<>>]
    ELSE IF ~is_connected(d) THEN
        [result |-> "ConnectionError", dev |-> d, sp |-> sp, trace |-> <<>>]
    ELSE IF ~ok THEN
        [result |-> "TransportError", dev |-> d, sp |-> sp, trace |-> <<Ev("write", Mfc(name), v, FALSE)>>]
    ELSE
        [result |-> "ok", dev |-> [d EXCEPT !.last_setpoint = v], sp |-> v, trace |-> <<Ev("write", Mfc(name), v, TRUE)>>]

\* A close_valve that skips the write when the last commanded setpoint is
\* already zero.
close_valve_cached(name, d, sp, ok) ==
    IF d.last_setpoint = 0 THEN
        [result |-> "ok", dev |-> d, sp |-> sp, trace |-> <<Ev("skipped", Mfc(name), 0, TRUE)>>]
    ELSE
        set_flow_mfc(name, d, sp, 0, ok)

\* A close_valve that commands the purge flow instead of zero.
close_valve_opens(name, d, sp, ok) == set_flow_mfc(name, d, sp, PurgeFlow, ok)

\* MFC.close_valve()
close_valve(name, d, sp, ok) == set_flow_mfc(name, d, sp, 0, ok)

\* ------------------------------------------------------------------------
\* Calibration (core/calibration.py)
\* ------------------------------------------------------------------------

\* np.argsort(v) restricted to the index set S: the index sequences that put
\* v in ascending order.  The order of equal elements is the sort kernel's.
RECURSIVE ArgSortsOf(_, _)
ArgSortsOf(v, S) ==
    IF S = {} THEN {<<>>}
    ELSE LET low == {i \in S : \A j \in S : RLeq(v[i], v[j])}
         IN  UNION {{<<i>> \o p : p \in ArgSortsOf(v, S \ {i})} : i \in low}

\* np.argsort(v)
argsort(v) == ArgSortsOf(v, 1..Len(v))

\* v[sort_idx]
Take(v, sort_idx) == [i \in 1..Len(sort_idx) |-> v[sort_idx[i]]]

\* A constructor that pairs the values up to the shorter length, as zip does.
Calibration_truncating(mfc_values, real_values, sort_idx) ==
    LET n == IF Len(mfc_values) < Len(real_values) THEN Len(mfc_values) ELSE Len(real_values) IN
    [result |-> "ok", mfc_values |-> SubSeq(mfc_values, 1, n), real_values |-> SubSeq(real_values, 1, n)]

\* Calibration(mfc_values, real_values): ValueError and no object, or the
\* object with both arrays reordered by sort_idx = np.argsort(mfc_values).
Calibration(mfc_values, real_values, sort_idx) ==
    IF Len(mfc_values) # Len(real_values) THEN
        [result |-> "ValueError", mfc_values |-> <<>>, real_values |-> <<>>]
    ELSE IF Len(mfc_values) < 2 THEN
        [result |-> "ValueError", mfc_values |-> <<>>, real_values |-> <<>>]
    ELSE
        [result |-> "ok", mfc_values |-> Take(mfc_values, sort_idx), real_values |-> Take(real_values, sort_idx)]

\* An interpolation that continues the edge segments beyond the table.
Interp_extrapolating(x, xp, fp) ==
    LET n == Len(xp)
        inner == {i \in 1..(n - 1) : RLeq(xp[i], x) /\ RLess(xp[i], xp[i + 1])}
        j == IF RLess(x, xp[1]) THEN 1
             ELSE IF inner # {} THEN CHOOSE i \in inner : \A k \in inner : k <= i
             ELSE n - 1
    IN  RAdd(fp[j], RMul(RDiv(RSub(fp[j + 1], fp[j]), RSub(xp[j + 1], xp[j])), RSub(x, xp[j])))

\* An interpolation that returns the table value at or below x.
Interp_step(x, xp, fp) ==
    IF RLess(x, xp[1]) THEN fp[1]
    ELSE LET at == {i \in 1..Len(xp) : RLeq(xp[i], x)} IN fp[CHOOSE i \in at : \A k \in at : k <= i]

\* np.interp(x, xp, fp) for ascending xp: fp[1] left of the table, fp[n]
\* right of it, and between two points the line through them.
Interp(x, xp, fp) ==
    LET n == Len(xp) IN
    IF RLess(xp[n], x) THEN fp[n]
    ELSE IF RLess(x, xp[1]) THEN fp[1]
    ELSE LET at == {i \in 1..n : RLeq(xp[i], x)}
             j == CHOOSE i \in at : \A k \in at : k <= i
         IN  IF j = n THEN fp[j]
             ELSE IF xp[j] = x THEN fp[j]
             ELSE RAdd(fp[j], RMul(RDiv(RSub(fp[j + 1], fp[j]), RSub(xp[j + 1], xp[j])), RSub(x, xp[j])))

\* Calibration.mfc_to_real(mfc_value)
mfc_to_real(c, mfc_value) == Interp(mfc_value, c.mfc_values, c.real_values)

\* Calibration.real_to_mfc(real_value); sort_idx is np.argsort(self.real_values)
real_to_mfc(c, real_value, sort_idx) == Interp(real_value, Take(c.real_values, sort_idx), Take(c.mfc_values, sort_idx))

\* Table entries, written in thousandths.
Milli(s) == [i \in 1..Len(s) |-> Rat(s[i], 1000)]

\* A table built at import time from literal lists.
Table(mfc_values, real_values) == Calibration(mfc_values, real_values, CHOOSE p \in argsort(mfc_values) : TRUE)

CH4_CALIBRATION ==
    Table(Milli(<<1000, 900, 800, 700, 600, 500, 400, 300, 200, 100, 0>>),
          Milli(<<325, 286, 251, 215, 182, 151, 120, 89, 58, 28, 0>>))

H2_CALIBRATION ==
    Table(Milli(<<2000, 1800, 1600, 1400, 1200, 1000, 900, 800, 700, 600, 500, 400, 300, 200, 100, 0>>),
          Milli(<<2019, 1802, 1602, 1405, 1201, 1005, 899, 795, 703, 595, 493, 393, 291, 197, 111, 0>>))

AIR_CALIBRATION ==
    Table(Milli(<<1400, 1200, 1000, 900, 800, 700, 600, 500, 400, 350, 300, 250, 200, 150, 100, 50, 0>>),
          Milli(<<1826, 1566, 1307, 1176, 1046, 916, 783, 654, 525, 460, 395, 330, 265, 200, 135, 69, 0>>))

\* Calibration.identity(gas_type): np.linspace(0, 10, 11) on both sides.
identity == Table([i \in 1..11 |-> Float(i - 1)], [i \in 1..11 |-> Float(i - 1)])

\* Keys of DEFAULT_CALIBRATIONS.
DEFAULT_CALIBRATIONS == {"CH4", "H2", "Air"}

\* The calibration add_mfc attaches when none is supplied:
\* get_default_calibration(gas_type), or Calibration.identity(gas_type) on KeyError.
ResolveCalibration(gas) == IF gas \in DEFAULT_CALIBRATIONS THEN <<"default", gas>> ELSE <<"identity", gas>>

\* ------------------------------------------------------------------------
\* Initial state: MFCController(), the registry empty, every valve closed
\* ------------------------------------------------------------------------

\* No Calibration(...) call has been made.
NoCal == [args |-> <<>>, result |-> "none", mfc_values |-> <<>>, real_values |-> <<>>]

Init ==
    /\ mfcs = EmptyDict
    /\ mfcs_order = <<>>
    /\ cori_flows = EmptyDict
    /\ cori_order = <<>>
    /\ setpoint = [n \in MfcNames |-> 0]
    /\ pc = [t \in Threads |-> "idle"]
    /\ air_name = [t \in Threads |-> ""]
    /\ it = [t \in Threads |-> 0]
    /\ call = [t \in Threads |-> NoCall]
    /\ pending = [t \in Threads |-> NoStore]
    /\ calibrations = [g \in DEFAULT_CALIBRATIONS |-> CASE g = "CH4" -> CH4_CALIBRATION [] g = "H2" -> H2_CALIBRATION [] g = "Air" -> AIR_CALIBRATION]
    /\ cal = NoCal
    /\ conv = <<>>

\* No thread is inside a call and the last outcome has been taken: the
\* single caller may start an operation.
AllIdle == \A t \in Threads : pc[t] = "idle" /\ call[t] = NoCall

Returns(t, c) == call' = [call EXCEPT ![t] = c]

PurgeFrame == UNCHANGED <<pc, air_name, it, pending>>

\* No Calibration object is constructed, converted with or modified.
CalFrame == UNCHANGED <<calibrations, cal, conv>>

\* ------------------------------------------------------------------------
\* MFCController: connection management (core/controller.py)
\* ------------------------------------------------------------------------

\* The handle _connect_device attaches: the ConnectionManager's instrument
\* for the device's locator (get_instrument may raise instead).
InstrumentOf(name) == name

\* all_devices: the controllable devices, then the read-only ones.
all_devices == [i \in 1..(Len(mfcs_order) + Len(cori_order)) |-> IF i <= Len(mfcs_order) THEN Mfc(mfcs_order[i]) ELSE Cori(cori_order[i - Len(mfcs_order)])]

\* The object behind an element of all_devices.
DeviceOf(x) == IF x[1] = "mfc" THEN mfcs[x[2]] ELSE cori_flows[x[2]]

\* Smallest index of s whose element is in F, or Len(s) + 1.
FirstIn(s, F) == IF \E i \in 1..Len(s) : s[i] \in F THEN CHOOSE i \in 1..Len(s) : s[i] \in F /\ \A j \in 1..(i - 1) : s[j] \notin F ELSE Len(s) + 1

\* ------------------------------------------------------------------------
\* MFCController: device management
\* ------------------------------------------------------------------------

\* add_mfc that never finds the name taken.
name_taken_never(ms, name) == FALSE

\* add_mfc's check: name in self._mfcs
name_taken(ms, name) == name \in DOMAIN ms

\* An add_mfc that registers the device only once it is connected.
add_mfc_connectsFirst(name, gas_type, auto_connect, acquired) ==
    /\ AllIdle
    /\ acquired \/ (auto_connect /\ name \notin DOMAIN mfcs)
    /\ name \in DOMAIN mfcs \/ Len(mfcs_order) < MaxMfcs
    /\ IF name_taken(mfcs, name) THEN
           /\ Returns("main", Call("add_mfc", name, "ValueError", <<>>))
           /\ UNCHANGED <<mfcs, mfcs_order>>
       ELSE IF auto_connect /\ ~acquired THEN
           /\ Returns("main", Call("add_mfc", name, "AcquireError", <<Ev("connect", Mfc(name), 0, FALSE)>>))
           /\ UNCHANGED <<mfcs, mfcs_order>>
       ELSE
           LET mfc == NewMFC(gas_type, ResolveCalibration(gas_type)) IN
           /\ mfcs_order' = Append(mfcs_order, name)
           /\ mfcs' = Put(mfcs, name, IF auto_connect THEN connect(mfc, InstrumentOf(name)) ELSE mfc)
           /\ Returns("main", Call("add_mfc", name, "ok", IF auto_connect THEN <<Ev("connect", Mfc(name), 0, TRUE)>> ELSE <<>>))
    /\ UNCHANGED <<cori_flows, cori_order, setpoint>>
    /\ PurgeFrame
    /\ CalFrame

\* add_mfc(name, com_port, node_address, gas_type, calibration=None, auto_connect);
\* acquired says whether _connect_device obtains its handle.
add_mfc(name, gas_type, auto_connect, acquired) ==
    /\ AllIdle
    /\ acquired \/ (auto_connect /\ name \notin DOMAIN mfcs)
    /\ name \in DOMAIN mfcs \/ Len(mfcs_order) < MaxMfcs
    /\ IF name_taken(mfcs, name) THEN
           /\ Returns("main", Call("add_mfc", name, "ValueError", <<>>))
           /\ UNCHANGED <<mfcs, mfcs_order, setpoint>>
       ELSE
           LET mfc == NewMFC(gas_type, ResolveCalibration(gas_type)) IN
           /\ mfcs_order' = Append(mfcs_order, name)
           /\ IF ~auto_connect THEN
                  /\ mfcs' = Put(mfcs, name, mfc)
                  /\ UNCHANGED setpoint
                  /\ Returns("main", Call("add_mfc", name, "ok", <<>>))
              ELSE IF acquired THEN
                  /\ mfcs' = Put(mfcs, name, connect(mfc, InstrumentOf(name)))
                  /\ UNCHANGED setpoint
                  /\ Returns("main", Call("add_mfc", name, "ok", <<Ev("connect", Mfc(name), 0, TRUE)>>))
              ELSE
                  /\ mfcs' = Put(mfcs, name, mfc)
                  /\ UNCHANGED setpoint
                  /\ Returns("main", Call("add_mfc", name, "AcquireError", <<Ev("connect", Mfc(name), 0, FALSE)>>))
    /\ UNCHANGED <<cori_flows, cori_order>>
    /\ PurgeFrame
    /\ CalFrame

\* An add_cori_flow that also refuses a name of the controllable collection.
cori_name_taken_shared(ms, cs, name) == name \in DOMAIN cs \/ name \in DOMAIN ms

\* add_cori_flow's check: name in self._cori_flows (self._mfcs is not consulted)
cori_name_taken(ms, cs, name) == name \in DOMAIN cs

\* add_cori_flow(name, com_port, node_address, gas_type, auto_connect)
add_cori_flow(name, auto_connect, acquired) ==
    /\ AllIdle
    /\ acquired \/ (auto_connect /\ name \notin DOMAIN cori_flows)
    /\ IF cori_name_taken(mfcs, cori_flows, name) THEN
           /\ Returns("main", Call("add_cori_flow", name, "ValueError", <<>>))
           /\ UNCHANGED <<cori_flows, cori_order>>
       ELSE
           /\ cori_order' = Append(cori_order, name)
           /\ IF ~auto_connect THEN
                  /\ cori_flows' = Put(cori_flows, name, NewCori)
                  /\ Returns("main", Call("add_cori_flow", name, "ok", <<>>))
              ELSE IF acquired THEN
                  /\ cori_flows' = Put(cori_flows, name, connect(NewCori, InstrumentOf(name)))
                  /\ Returns("main", Call("add_cori_flow", name, "ok", <<Ev("connect", Cori(name), 0, TRUE)>>))
              ELSE
                  /\ cori_flows' = Put(cori_flows, name, NewCori)
                  /\ Returns("main", Call("add_cori_flow", name, "AcquireError", <<Ev("connect", Cori(name), 0, FALSE)>>))
    /\ UNCHANGED <<mfcs, mfcs_order, setpoint>>
    /\ PurgeFrame
    /\ CalFrame

\* remove_mfc(name); write_ok says whether the transport accepts the
\* zero-setpoint write of close_valve().
remove_mfc(name, write_ok) ==
    /\ AllIdle
    /\ write_ok \/ (name \in DOMAIN mfcs /\ is_connected(mfcs[name]))
    /\ IF name \notin DOMAIN mfcs THEN
           /\ Returns("main", Call("remove_mfc", name, "KeyError", <<>>))
           /\ UNCHANGED <<mfcs, mfcs_order, setpoint>>
       ELSE IF ~is_connected(mfcs[name]) THEN
           /\ mfcs' = Del(mfcs, name)
           /\ mfcs_order' = Without(mfcs_order, name)
           /\ setpoint' = [setpoint EXCEPT ![name] = 0]
           /\ Returns("main", Call("remove_mfc", name, "ok", <<>>))
       ELSE
           LET c == close_valve(name, mfcs[name], setpoint[name], write_ok) IN
           IF c.result # "ok" THEN
               \* close_valve() raised: remove_mfc propagates it
               /\ UNCHANGED <<mfcs, mfcs_order, setpoint>>
               /\ Returns("main", Call("remove_mfc", name, c.result, c.trace))
           ELSE
               /\ mfcs' = Del(mfcs, name)
               /\ mfcs_order' = Without(mfcs_order, name)
               /\ setpoint' = [setpoint EXCEPT ![name] = c.sp]
               /\ Returns("main", Call("remove_mfc", name, "ok", c.trace \o <<Ev("disconnect", Mfc(name), 0, TRUE)>>))
    /\ UNCHANGED <<cori_flows, cori_order>>
    /\ PurgeFrame
    /\ CalFrame

\* remove_cori_flow(name)
remove_cori_flow(name) ==
    /\ AllIdle
    /\ IF name \notin DOMAIN cori_flows THEN
           /\ Returns("main", Call("remove_cori_flow", name, "KeyError", <<>>))
           /\ UNCHANGED <<cori_flows, cori_order>>
       ELSE
           /\ cori_flows' = Del(cori_flows, name)
           /\ cori_order' = Without(cori_order, name)
           /\ Returns("main", Call("remove_cori_flow", name, "ok", IF is_connected(cori_flows[name]) THEN <<Ev("disconnect", Cori(name), 0, TRUE)>> ELSE <<>>))
    /\ UNCHANGED <<mfcs, mfcs_order, setpoint>>
    /\ PurgeFrame
    /\ CalFrame

\* A lookup that hands out a device whatever the name.
Lookup_default(d, name) == "ok"

\* The outcome of a lookup in one collection: "if name not in d: raise
\* KeyError", else the object d[name] is returned.
Lookup(d, name) == IF name \notin DOMAIN d THEN "KeyError" ELSE "ok"

\* get_mfc(name): the object registered under name, or KeyError.
get_mfc(name) ==
    /\ AllIdle
    /\ Returns("main", Call("get_mfc", name, Lookup(mfcs, name), <<>>))
    /\ UNCHANGED <<mfcs, mfcs_order, cori_flows, cori_order, setpoint>>
    /\ PurgeFrame
    /\ CalFrame

\* get_cori_flow(name)
get_cori_flow(name) ==
    /\ AllIdle
    /\ Returns("main", Call("get_cori_flow", name, Lookup(cori_flows, name), <<>>))
    /\ UNCHANGED <<mfcs, mfcs_order, cori_flows, cori_order, setpoint>>
    /\ PurgeFrame
    /\ CalFrame

\* ------------------------------------------------------------------------
\* MFCController: bulk operations
\* ------------------------------------------------------------------------

\* close_all_valves() with one try around the whole loop: the first
\* rejected write is logged and ends the iteration.
CloseAll_breaks(ms, sp, order, fail) ==
    LET conn == SelectSeq(order, LAMBDA n : is_connected(ms[n]))
        k == FirstIn(conn, fail)
        done == {conn[i] : i \in 1..(k - 1)}
    IN  [result |-> "ok",
         mfcs |-> [n \in DOMAIN ms |-> IF n \in done THEN [ms[n] EXCEPT !.last_setpoint = 0] ELSE ms[n]],
         sp |-> [n \in MfcNames |-> IF n \in done THEN 0 ELSE sp[n]],
         trace |-> <<Ev("close_all_valves", NoDev, 0, TRUE)>> \o [i \in 1..(IF k <= Len(conn) THEN k ELSE k - 1) |-> Ev("write", Mfc(conn[i]), 0, i < k)]]

\* close_all_valves() without the try: the first rejected write propagates.
CloseAll_raises(ms, sp, order, fail) ==
    LET c == CloseAll_breaks(ms, sp, order, fail) IN
    [c EXCEPT !.result = IF \E i \in 1..Len(c.trace) : ~c.trace[i].ok THEN "TransportError" ELSE "ok"]

\* The effect of close_all_valves() on the objects ms and the device-side
\* setpoints sp, iterating the keys in order; fail is the set of devices
\* whose transport rejects the write.  Each close_valve() is tried on its
\* own and its exception is logged, so the outcome is always a return.
CloseAll(ms, sp, order, fail) ==
    LET conn == SelectSeq(order, LAMBDA n : is_connected(ms[n]))
        res(n) == close_valve(n, ms[n], sp[n], n \notin fail)
    IN  [result |-> "ok",
         mfcs |-> [n \in DOMAIN ms |-> IF is_connected(ms[n]) THEN res(n).dev ELSE ms[n]],
         sp |-> [n \in MfcNames |-> IF n \in DOMAIN ms /\ is_connected(ms[n]) THEN res(n).sp ELSE sp[n]],
         trace |-> <<Ev("close_all_valves", NoDev, 0, TRUE)>> \o [i \in 1..Len(conn) |-> res(conn[i]).trace[1]]]

\* The names of the connected controllable devices.
ConnectedMfcs == {n \in DOMAIN mfcs : is_connected(mfcs[n])}

\* The elements of all_devices that are connected.
ConnectedDevices == {all_devices[i] : i \in {j \in 1..Len(all_devices) : is_connected(DeviceOf(all_devices[j]))}}

\* close_all_valves()
close_all_valves(fail) ==
    /\ AllIdle
    /\ fail \subseteq ConnectedMfcs
    /\ LET c == CloseAll(mfcs, setpoint, mfcs_order, fail) IN
       /\ mfcs' = c.mfcs
       /\ setpoint' = c.sp
       /\ Returns("main", Call("close_all_valves", "", c.result, c.trace))
    /\ UNCHANGED <<mfcs_order, cori_flows, cori_order>>
    /\ PurgeFrame
    /\ CalFrame

\* connect_all(); fail is the set of devices whose handle cannot be acquired.
connect_all(fail) ==
    /\ AllIdle
    /\ fail \subseteq (Range(all_devices) \ ConnectedDevices)
    /\ LET todo == SelectSeq(all_devices, LAMBDA x : ~is_connected(DeviceOf(x)))
           k == FirstIn(todo, fail)
           done == {todo[i] : i \in 1..(k - 1)}
       IN
       /\ mfcs' = [n \in DOMAIN mfcs |-> IF Mfc(n) \in done THEN connect(mfcs[n], InstrumentOf(n)) ELSE mfcs[n]]
       /\ cori_flows' = [n \in DOMAIN cori_flows |-> IF Cori(n) \in done THEN connect(cori_flows[n], InstrumentOf(n)) ELSE cori_flows[n]]
       /\ setpoint' = [n \in MfcNames |-> IF Mfc(n) \in done THEN setpoint[n] ELSE setpoint[n]]
       /\ Returns("main", Call("connect_all", "", IF k <= Len(todo) THEN "AcquireError" ELSE "ok",
                               [i \in 1..(IF k <= Len(todo) THEN k ELSE k - 1) |-> Ev("connect", todo[i], 0, i < k)]))
    /\ UNCHANGED <<mfcs_order, cori_order>>
    /\ PurgeFrame
    /\ CalFrame

\* disconnect_all() that releases the handles first and closes the valves
\* afterwards, when no device is connected any more.
DisconnectAll_closesLast(ms, cs, sp, morder, corder, devices, fail) ==
    LET conn == SelectSeq(devices, LAMBDA x : is_connected(IF x[1] = "mfc" THEN ms[x[2]] ELSE cs[x[2]]))
        dm == [n \in DOMAIN ms |-> IF is_connected(ms[n]) THEN disconnect(ms[n]) ELSE ms[n]]
        c == CloseAll(dm, sp, morder, fail)
    IN  [result |-> c.result,
         mfcs |-> c.mfcs,
         cori_flows |-> [n \in DOMAIN cs |-> IF is_connected(cs[n]) THEN disconnect(cs[n]) ELSE cs[n]],
         sp |-> c.sp,
         trace |-> [i \in 1..Len(conn) |-> Ev("disconnect", conn[i], 0, TRUE)] \o c.trace]

\* The effect of disconnect_all() on the objects ms and cs: close_all_valves()
\* first, then disconnect() on every connected element of all_devices
\* (ConnectionManager.close_all() follows; it logs its own failures).
DisconnectAll(ms, cs, sp, morder, corder, devices, fail) ==
    LET c == CloseAll(ms, sp, morder, fail)
        conn == SelectSeq(devices, LAMBDA x : is_connected(IF x[1] = "mfc" THEN c.mfcs[x[2]] ELSE cs[x[2]]))
    IN  [result |-> c.result,
         mfcs |-> [n \in DOMAIN ms |-> IF is_connected(c.mfcs[n]) THEN disconnect(c.mfcs[n]) ELSE c.mfcs[n]],
         cori_flows |-> [n \in DOMAIN cs |-> IF is_connected(cs[n]) THEN disconnect(cs[n]) ELSE cs[n]],
         sp |-> c.sp,
         trace |-> c.trace \o [i \in 1..Len(conn) |-> Ev("disconnect", conn[i], 0, TRUE)]]

\* disconnect_all()
disconnect_all(fail) ==
    /\ AllIdle
    /\ fail \subseteq ConnectedMfcs
    /\ LET d == DisconnectAll(mfcs, cori_flows, setpoint, mfcs_order, cori_order, all_devices, fail) IN
       /\ mfcs' = d.mfcs
       /\ cori_flows' = d.cori_flows
       /\ setpoint' = d.sp
       /\ Returns("main", Call("disconnect_all", "", d.result, d.trace))
    /\ UNCHANGED <<mfcs_order, cori_order>>
    /\ PurgeFrame
    /\ CalFrame

\* wink_all(); fail is the set of devices whose transport rejects the write.
wink_all(fail) ==
    /\ AllIdle
    /\ fail \subseteq ConnectedDevices
    /\ LET conn == SelectSeq(all_devices, LAMBDA x : is_connected(DeviceOf(x)))
           k == FirstIn(conn, fail)
       IN
       Returns("main", Call("wink_all", "", IF k <= Len(conn) THEN "TransportError" ELSE "ok",
                            [i \in 1..(IF k <= Len(conn) THEN k ELSE k - 1) |-> Ev("wink", conn[i], 0, i < k)]))
    /\ UNCHANGED <<mfcs, mfcs_order, cori_flows, cori_order, setpoint>>
    /\ PurgeFrame
    /\ CalFrame

\* check_all_deviations(threshold); fail is the set of devices whose setpoint
\* or flow read yields no data (ValueError) or raises in the transport.
check_all_deviations(fail, error) ==
    /\ AllIdle
    /\ fail \subseteq ConnectedMfcs
    /\ LET conn == SelectSeq(mfcs_order, LAMBDA n : is_connected(mfcs[n]))
           k == FirstIn(conn, fail)
       IN
       Returns("main", Call("check_all_deviations", "", IF k <= Len(conn) THEN error ELSE "ok",
                            [i \in 1..(IF k <= Len(conn) THEN k ELSE k - 1) |-> Ev("check_deviation", Mfc(conn[i]), 0, i < k)]))
    /\ UNCHANGED <<mfcs, mfcs_order, cori_flows, cori_order, setpoint>>
    /\ PurgeFrame
    /\ CalFrame

\* get_mfc(name).set_flow_mfc(v), as a caller commands one device.
set_flow(name, v, ok) ==
    /\ AllIdle
    /\ ok \/ (v >= 0 /\ name \in ConnectedMfcs)
    /\ IF name \notin DOMAIN mfcs THEN
           /\ Returns("main", Call("set_flow_mfc", name, "KeyError", <<>>))
           /\ UNCHANGED <<mfcs, setpoint>>
       ELSE
           LET r == set_flow_mfc(name, mfcs[name], setpoint[name], v, ok) IN
           /\ mfcs' = Put(mfcs, name, r.dev)
           /\ setpoint' = [setpoint EXCEPT ![name] = r.sp]
           /\ Returns("main", Call("set_flow_mfc", name, r.result, r.trace))
    /\ UNCHANGED <<mfcs_order, cori_flows, cori_order>>
    /\ PurgeFrame
    /\ CalFrame

\* ------------------------------------------------------------------------
\* One device, as a caller holding the object uses it (core/mfc.py)
\* ------------------------------------------------------------------------

\* Arguments a caller passes to set_flow_real (one of them negative).
RealArgs == (-1)..MaxFlow

\* Whether a float is a whole number, and that number.
IsWhole(q) == q[2] = 1
Whole(q) == q[1]

\* The Calibration object the device's calibration field refers to: the
\* shared entry of DEFAULT_CALIBRATIONS, or the device's own identity table.
CalibrationOf(d) == IF d.calibration[1] = "default" THEN calibrations[d.calibration[2]] ELSE identity

\* MFC.set_flow_real(real_value): ValueError for a negative value; otherwise
\* calibration.real_to_mfc(real_value) is handed to set_flow_mfc.
set_flow_real(name, d, sp, v, ok, sort_idx) ==
    IF v < 0 THEN
        [result |-> "ValueError", dev |-> d, sp |-> sp, trace |-> <<>>]
    ELSE
        set_flow_mfc(name, d, sp, Whole(real_to_mfc(CalibrationOf(d), Float(v), sort_idx)), ok)

\* get_mfc(name).set_flow_real(v).  The commanded real flows are those whose
\* device value is a whole number.
set_real(name, v, ok) ==
    /\ AllIdle
    /\ ok \/ (v >= 0 /\ name \in ConnectedMfcs)
    /\ IF name \notin DOMAIN mfcs THEN
           /\ Returns("main", Call("set_flow_real", name, "KeyError", <<>>))
           /\ UNCHANGED <<mfcs, setpoint>>
       ELSE
           \E p \in argsort(CalibrationOf(mfcs[name]).real_values) :
               /\ v >= 0 => IsWhole(real_to_mfc(CalibrationOf(mfcs[name]), Float(v), p))
               /\ LET r == set_flow_real(name, mfcs[name], setpoint[name], v, ok, p) IN
                  /\ mfcs' = Put(mfcs, name, r.dev)
                  /\ setpoint' = [setpoint EXCEPT ![name] = r.sp]
                  /\ Returns("main", Call("set_flow_real", name, r.result, r.trace))
    /\ UNCHANGED <<mfcs_order, cori_flows, cori_order>>
    /\ PurgeFrame
    /\ CalFrame

\* get_mfc(name).close_valve()
close(name, ok) ==
    /\ AllIdle
    /\ name \in DOMAIN mfcs
    /\ ok \/ name \in ConnectedMfcs
    /\ LET r == close_valve(name, mfcs[name], setpoint[name], ok) IN
       /\ mfcs' = Put(mfcs, name, r.dev)
       /\ setpoint' = [setpoint EXCEPT ![name] = r.sp]
       /\ Returns("main", Call("close_valve", name, r.result, r.trace))
    /\ UNCHANGED <<mfcs_order, cori_flows, cori_order>>
    /\ PurgeFrame
    /\ CalFrame

\* The methods of FlowDeviceBase that read a parameter or wink, and those
\* that only an MFC has.
BaseOps == {"read_flow_mfc", "read_flow_real", "read_capacity", "read_device_tag", "wink"}
MfcOps == {"read_setpoint_mfc", "read_setpoint_real", "check_deviation"}

\* The methods of the device x.
OpsOf(x) == IF x[1] = "mfc" THEN BaseOps \cup MfcOps ELSE BaseOps

\* What the transport does with the request: it answers, it raises, or
\* readParameter returns None.
TransportOutcomes == {"ok", "TransportError", "NoData"}

\* Reads and winks that go to the transport without _require_connection().
DeviceOpResult_unguarded(d, op, outcome) ==
    IF outcome = "TransportError" THEN "TransportError"
    ELSE IF outcome = "NoData" /\ op # "read_device_tag" THEN "ValueError"
    ELSE "ok"

\* The outcome of a read or wink on object d: _require_connection() first;
\* then the transport's exception, or ValueError for a missing value
\* (read_device_tag turns it into "").
DeviceOpResult(d, op, outcome) ==
    IF ~is_connected(d) THEN "ConnectionError"
    ELSE IF outcome = "TransportError" THEN "TransportError"
    ELSE IF outcome = "NoData" /\ op # "read_device_tag" THEN "ValueError"
    ELSE "ok"

\* device.<op>() on a registered device, for the reads and wink
device_op(x, op, outcome) ==
    /\ AllIdle
    /\ x \in Range(all_devices)
    /\ op \in OpsOf(x)
    /\ outcome = "ok" \/ (is_connected(DeviceOf(x)) /\ (outcome = "NoData" => op # "wink"))
    /\ LET r == DeviceOpResult(DeviceOf(x), op, outcome) IN
       Returns("main", Call(op, x, r, IF r = "ConnectionError" THEN <<>> ELSE <<Ev(op, x, 0, r = "ok")>>))
    /\ UNCHANGED <<mfcs, mfcs_order, cori_flows, cori_order, setpoint>>
    /\ PurgeFrame
    /\ CalFrame

\* A handle that is not the ConnectionManager's for the device.
SpareHandle == "spare"

\* The handles a caller attaches to the device named name.
Handles(name) == {InstrumentOf(name), SpareHandle}

\* device.connect(instrument) on a registered device; the call's events are
\* the handle held before and the handle held after.
device_connect(x, instrument) ==
    /\ AllIdle
    /\ x \in Range(all_devices)
    /\ mfcs' = IF x[1] = "mfc" THEN Put(mfcs, x[2], connect(mfcs[x[2]], instrument)) ELSE mfcs
    /\ cori_flows' = IF x[1] = "cori" THEN Put(cori_flows, x[2], connect(cori_flows[x[2]], instrument)) ELSE cori_flows
    /\ Returns("main", Call("connect", x, "ok", <<Ev("handle", x, DeviceOf(x).instrument, TRUE), Ev("handle", x, instrument, TRUE)>>))
    /\ UNCHANGED <<mfcs_order, cori_order, setpoint>>
    /\ PurgeFrame
    /\ CalFrame

\* device.disconnect() on a registered device
device_disconnect(x) ==
    /\ AllIdle
    /\ x \in Range(all_devices)
    /\ mfcs' = IF x[1] = "mfc" THEN Put(mfcs, x[2], disconnect(mfcs[x[2]])) ELSE mfcs
    /\ cori_flows' = IF x[1] = "cori" THEN Put(cori_flows, x[2], disconnect(cori_flows[x[2]])) ELSE cori_flows
    /\ Returns("main", Call("disconnect", x, "ok", <<Ev("handle", x, DeviceOf(x).instrument, TRUE), Ev("handle", x, None, TRUE)>>))
    /\ UNCHANGED <<mfcs_order, cori_order, setpoint>>
    /\ PurgeFrame
    /\ CalFrame

\* ------------------------------------------------------------------------
\* Reading the measured flow of every controllable device
\* ------------------------------------------------------------------------

\* float("nan")
NaN == <<0, 0>>

\* abs(q)
RAbs(q) == <<Abs(q[1]), q[2]>>

\* Flows a device measures, in MFC units: none, the default threshold of
\* check_all_flows_zero, a forward and a reverse flow.
MeasuredFlows == {Float(0), Rat(1, 100), Float(1), Float(-1)}

\* The thresholds a caller passes to check_all_flows_zero: the default 0.01
\* and a wider one.
Thresholds == {Rat(1, 100), Float(1)}

\* What readParameter(MEASURE) does: it returns a value, returns None, or
\* raises.
Measure(outcome, value) == [outcome |-> outcome, value |-> value]
Measures == {Measure("ok", q) : q \in MeasuredFlows} \cup {Measure(o, Float(0)) : o \in TransportOutcomes \ {"ok"}}

\* MFC.read_flow_mfc() on object d when the transport does m
read_flow_mfc(d, m) ==
    LET r == DeviceOpResult(d, "read_flow_mfc", m.outcome) IN
    [result |-> r, value |-> IF r = "ok" THEN m.value ELSE NaN]

\* MFC.read_flow_real(): the reading converted by the device's calibration
read_flow_real(d, m) ==
    LET r == read_flow_mfc(d, m) IN
    IF r.result = "ok" THEN [result |-> "ok", value |-> mfc_to_real(CalibrationOf(d), r.value)] ELSE r

\* The reads of a bulk read, in iteration order: one on each connected device.
ReadEvents(ms, order, meas) ==
    LET conn == SelectSeq(order, LAMBDA n : is_connected(ms[n])) IN
    [i \in 1..Len(conn) |-> Ev("read_flow_mfc", Mfc(conn[i]), meas[conn[i]].value, meas[conn[i]].outcome = "ok")]

\* A loop body of read_all_flows that leaves a device whose read failed out
\* of the result.
ReadInto_skipsFailed(flows, name, d, m) ==
    LET r == read_flow_real(d, m) IN
    IF r.result = "ok" THEN Put(flows, name, r.value) ELSE flows

\* The body of the loop of read_all_flows() for a connected device:
\* flows[name] is the real flow read from it, NaN when the read raised.
ReadInto(flows, name, d, m) ==
    LET r == read_flow_real(d, m) IN
    IF r.result = "ok" THEN Put(flows, name, r.value) ELSE Put(flows, name, NaN)

\* The loop of read_all_flows() over self._mfcs.items(), which passes over
\* the devices that are not connected.
RECURSIVE ReadAllFlows(_, _, _, _)
ReadAllFlows(ms, order, meas, flows) ==
    IF order = <<>> THEN flows
    ELSE LET name == Head(order) IN
         IF ~is_connected(ms[name]) THEN ReadAllFlows(ms, Tail(order), meas, flows)
         ELSE ReadAllFlows(ms, Tail(order), meas, ReadInto(flows, name, ms[name], meas[name]))

\* read_all_flows(); meas is what the transport of each connected device does
read_all_flows(meas) ==
    /\ AllIdle
    /\ Returns("main", Returning(Call("read_all_flows", "", "ok", ReadEvents(mfcs, mfcs_order, meas)),
                                 ReadAllFlows(mfcs, mfcs_order, meas, EmptyDict)))
    /\ UNCHANGED <<mfcs, mfcs_order, cori_flows, cori_order, setpoint>>
    /\ PurgeFrame
    /\ CalFrame

\* A loop body of check_all_flows_zero in which the last device read decides.
StillZero_lastWins(all_zero, d, m, threshold) ==
    LET r == read_flow_mfc(d, m) IN
    r.result = "ok" /\ ~RLess(threshold, RAbs(r.value))

\* The body of the loop of check_all_flows_zero(threshold) for a connected
\* device: all_zero becomes False when the device reads a flow with
\* abs(flow) > threshold or its read raises.
StillZero(all_zero, d, m, threshold) ==
    LET r == read_flow_mfc(d, m) IN
    IF r.result # "ok" THEN FALSE
    ELSE IF RLess(threshold, RAbs(r.value)) THEN FALSE
    ELSE all_zero

\* The loop of check_all_flows_zero(threshold) over mfc_items(), which passes
\* over the devices that are not connected.
RECURSIVE FlowsZero(_, _, _, _, _)
FlowsZero(ms, order, meas, threshold, all_zero) ==
    IF order = <<>> THEN all_zero
    ELSE LET name == Head(order) IN
         IF ~is_connected(ms[name]) THEN FlowsZero(ms, Tail(order), meas, threshold, all_zero)
         ELSE FlowsZero(ms, Tail(order), meas, threshold, StillZero(all_zero, ms[name], meas[name], threshold))

\* ------------------------------------------------------------------------
\* SafetyManager (core/safety.py)
\* ------------------------------------------------------------------------

\* check_all_flows_zero(threshold)
check_all_flows_zero(threshold, meas) ==
    /\ AllIdle
    /\ Returns("main", Returning(Call("check_all_flows_zero", threshold, "ok", ReadEvents(mfcs, mfcs_order, meas)),
                                 FlowsZero(mfcs, mfcs_order, meas, threshold, TRUE)))
    /\ UNCHANGED <<mfcs, mfcs_order, cori_flows, cori_order, setpoint>>
    /\ PurgeFrame
    /\ CalFrame

\* SafetyManager.air_mfc_name
DefaultAir == "Air"

\* The air_mfc_name arguments a caller passes to purge.
PurgeOverrides == {None, "CH4"}

\* emergency_stop()
emergency_stop(fail) ==
    /\ AllIdle
    /\ fail \subseteq ConnectedMfcs
    /\ LET c == CloseAll(mfcs, setpoint, mfcs_order, fail) IN
       /\ mfcs' = c.mfcs
       /\ setpoint' = c.sp
       /\ Returns("main", Call("emergency_stop", "", c.result, c.trace))
    /\ UNCHANGED <<mfcs_order, cori_flows, cori_order>>
    /\ PurgeFrame
    /\ CalFrame

\* Append events to the trace of thread t's call and set its outcome.
Continue(t, result, events) == call' = [call EXCEPT ![t].result = result, ![t].trace = @ \o events]

\* purge(air_mfc_name): entry, air_name = air_mfc_name or self.air_mfc_name
purge_begin(t, override) ==
    /\ pc[t] = "idle"
    /\ call[t] = NoCall
    /\ air_name' = [air_name EXCEPT ![t] = IF override = None THEN DefaultAir ELSE override]
    /\ it' = [it EXCEPT ![t] = 1]
    /\ pc' = [pc EXCEPT ![t] = IF Len(mfcs_order) = 0 THEN "open_air" ELSE "close_fuel"]
    /\ Returns(t, Call("purge", air_name'[t], "running", <<>>))
    /\ UNCHANGED <<mfcs, mfcs_order, cori_flows, cori_order, setpoint, pending>>
    /\ CalFrame

\* Thread t has called set_flow_mfc on the device name, with outcome c.  The
\* device side takes the written value at once.  After an accepted write the
\* thread has still to assign _last_setpoint_mfc and resumes afterwards;
\* after an exception, which its caller logs, it resumes directly.
Commands(t, name, c, resume) ==
    /\ setpoint' = [setpoint EXCEPT ![name] = c.sp]
    /\ UNCHANGED mfcs
    /\ IF c.result = "ok" THEN
           /\ pending' = [pending EXCEPT ![t] = Store(name, c.dev.last_setpoint, resume)]
           /\ pc' = [pc EXCEPT ![t] = "store"]
       ELSE
           /\ UNCHANGED pending
           /\ pc' = [pc EXCEPT ![t] = resume]

\* A set_flow_mfc that does not record the value it wrote.
store_never(t) ==
    /\ pc[t] = "store"
    /\ pc' = [pc EXCEPT ![t] = pending[t].continue]
    /\ pending' = [pending EXCEPT ![t] = NoStore]
    /\ UNCHANGED <<mfcs, mfcs_order, cori_flows, cori_order, setpoint, air_name, it, call>>
    /\ CalFrame

\* set_flow_mfc, after writeParameter: self._last_setpoint_mfc = mfc_value
store(t) ==
    /\ pc[t] = "store"
    /\ mfcs' = [mfcs EXCEPT ![pending[t].name].last_setpoint = pending[t].value]
    /\ pc' = [pc EXCEPT ![t] = pending[t].continue]
    /\ pending' = [pending EXCEPT ![t] = NoStore]
    /\ UNCHANGED <<mfcs_order, cori_flows, cori_order, setpoint, air_name, it, call>>
    /\ CalFrame

\* Step 1 without the name test: the air MFC is closed with the fuel.
ClosesFuel_includesAir(name, air, ms) == is_connected(ms[name])

\* Whether step 1 closes the device it iterates over.
ClosesFuel(name, air, ms) == name # air /\ is_connected(ms[name])

\* purge step 1, one iteration of the loop over mfc_items()
purge_close_fuel(t, ok) ==
    /\ pc[t] = "close_fuel"
    /\ it[t] <= Len(mfcs_order)
    /\ LET name == mfcs_order[it[t]]
           closes == ClosesFuel(name, air_name[t], mfcs)
           c == close_valve(name, mfcs[name], setpoint[name], ok)
           resume == IF it[t] + 1 > Len(mfcs_order) THEN "open_air" ELSE "close_fuel"
       IN
       /\ ok \/ (closes /\ is_connected(mfcs[name]))
       /\ IF closes THEN
              /\ Commands(t, name, c, resume)
              /\ Continue(t, "running", c.trace)
          ELSE
              /\ pc' = [pc EXCEPT ![t] = resume]
              /\ UNCHANGED <<mfcs, setpoint, call, pending>>
    /\ it' = [it EXCEPT ![t] = @ + 1]
    /\ UNCHANGED <<mfcs_order, cori_flows, cori_order, air_name>>
    /\ CalFrame

\* What the try block of step 2 does: get_mfc raises KeyError, the air MFC
\* is not connected and is left alone, or set_flow_mfc(purge_flow) is
\* accepted or rejected by the transport.
OpenAirOutcome(ms, name, ok) ==
    IF name \notin DOMAIN ms THEN "KeyError"
    ELSE IF ~is_connected(ms[name]) THEN "skipped"
    ELSE IF ok THEN "started"
    ELSE "failed"

\* Step 2 without its except KeyError clause.
PurgeFallsBack_notOnKeyError(outcome) == outcome = "failed"

\* Step 2 without its except Exception clause.
PurgeFallsBack_onlyOnKeyError(outcome) == outcome = "KeyError"

\* The outcomes of step 2 that its except clauses turn into
\* close_all_valves() and an early return.
PurgeFallsBack(outcome) == outcome \in {"KeyError", "failed"}

\* purge step 2: look the air MFC up and command the purge flow; on KeyError
\* or any other exception close all valves and return.
purge_open_air(t, ok, fail) ==
    /\ pc[t] = "open_air"
    /\ fail \subseteq ConnectedMfcs
    /\ LET name == air_name[t]
           o == OpenAirOutcome(mfcs, name, ok)
           w == IF o \in {"started", "failed"}
                THEN set_flow_mfc(name, mfcs[name], setpoint[name], PurgeFlow, ok)
                ELSE [result |-> o, dev |-> None, sp |-> 0, trace |-> <<Ev(o, Mfc(name), 0, FALSE)>>]
       IN
       /\ ok \/ o = "failed"
       /\ IF PurgeFallsBack(o) THEN
              LET c == CloseAll(mfcs, setpoint, mfcs_order, fail) IN
              /\ mfcs' = c.mfcs
              /\ setpoint' = c.sp
              /\ Continue(t, c.result, w.trace \o c.trace)
              /\ pc' = [pc EXCEPT ![t] = "idle"]
              /\ UNCHANGED pending
          ELSE
              /\ fail = {}
              /\ Continue(t, "running", w.trace)
              /\ IF o = "started" THEN
                     Commands(t, name, w, "sleep")
                 ELSE
                     /\ pc' = [pc EXCEPT ![t] = "sleep"]
                     /\ UNCHANGED <<mfcs, setpoint, pending>>
    /\ UNCHANGED <<mfcs_order, cori_flows, cori_order, air_name, it>>
    /\ CalFrame

\* purge step 3: time.sleep(self.purge_duration)
purge_sleep(t) ==
    /\ pc[t] = "sleep"
    /\ pc' = [pc EXCEPT ![t] = "close_air"]
    /\ Continue(t, "running", <<Ev("sleep", NoDev, 0, TRUE)>>)
    /\ UNCHANGED <<mfcs, mfcs_order, cori_flows, cori_order, setpoint, air_name, it, pending>>
    /\ CalFrame

\* Step 4 without its try: the exception of close_valve() reaches the caller.
CloseAirOutcome_raises(result) == result

\* The outcome of purge after step 4: close_valve() returned, or its
\* exception was logged; either way purge returns normally.
CloseAirOutcome(result) == "ok"

\* purge step 4: air_mfc.close_valve(), any exception logged; then return
purge_close_air(t, ok) ==
    /\ pc[t] = "close_air"
    /\ air_name[t] \in DOMAIN mfcs
    /\ ok \/ is_connected(mfcs[air_name[t]])
    /\ LET c == close_valve(air_name[t], mfcs[air_name[t]], setpoint[air_name[t]], ok) IN
       /\ Commands(t, air_name[t], c, "idle")
       /\ Continue(t, CloseAirOutcome(c.result), IF c.result = "ConnectionError" THEN <<Ev("skipped", Mfc(air_name[t]), 0, FALSE)>> ELSE c.trace)
    /\ UNCHANGED <<mfcs_order, cori_flows, cori_order, air_name, it>>
    /\ CalFrame

\* The steps of a purge that thread t has begun.
purge_step(t) ==
    \/ \E w \in BOOLEAN : purge_close_fuel(t, w)
    \/ \E w \in BOOLEAN, F \in SUBSET ConnectedMfcs : purge_open_air(t, w, F)
    \/ purge_sleep(t)
    \/ \E w \in BOOLEAN : purge_close_air(t, w)
    \/ store(t)

\* The caller of thread t takes the outcome of its call (a return value or
\* an exception) and is ready for its next call.
ret(t) ==
    /\ pc[t] = "idle"
    /\ call[t] # NoCall
    /\ call' = [call EXCEPT ![t] = NoCall]
    /\ UNCHANGED <<mfcs, mfcs_order, cori_flows, cori_order, setpoint, pc, air_name, it, pending>>
    /\ CalFrame

\* ------------------------------------------------------------------------
\* Specification: one caller; a call runs to its return before the next
\* ------------------------------------------------------------------------

Next ==
    \/ \E n \in MfcNames, a \in BOOLEAN, k \in BOOLEAN : add_mfc(n, n, a, k)
    \/ \E n \in CoriNames, a \in BOOLEAN, k \in BOOLEAN : add_cori_flow(n, a, k)
    \/ \E n \in MfcNames, w \in BOOLEAN : remove_mfc(n, w)
    \/ \E n \in CoriNames : remove_cori_flow(n)
    \/ \E n \in MfcNames : get_mfc(n)
    \/ \E n \in CoriNames : get_cori_flow(n)
    \/ \E F \in SUBSET ConnectedMfcs : close_all_valves(F)
    \/ \E F \in SUBSET Range(all_devices) : connect_all(F)
    \/ \E F \in SUBSET ConnectedMfcs : disconnect_all(F)
    \/ \E F \in SUBSET ConnectedDevices : wink_all(F)
    \/ \E F \in SUBSET ConnectedMfcs, e \in {"ValueError", "TransportError"} : check_all_deviations(F, e)
    \/ \E n \in MfcNames, v \in FlowArgs, w \in BOOLEAN : set_flow(n, v, w)
    \/ \E meas \in [ConnectedMfcs -> Measures] : read_all_flows(meas)
    \/ \E th \in Thresholds, meas \in [ConnectedMfcs -> Measures] : check_all_flows_zero(th, meas)
    \/ \E F \in SUBSET ConnectedMfcs : emergency_stop(F)
    \/ \E o \in PurgeOverrides : AllIdle /\ purge_begin("main", o)
    \/ \E w \in BOOLEAN : purge_close_fuel("main", w)
    \/ \E w \in BOOLEAN, F \in SUBSET ConnectedMfcs : purge_open_air("main", w, F)
    \/ purge_sleep("main")
    \/ \E w \in BOOLEAN : purge_close_air("main", w)
    \/ store("main")
    \/ ret("main")

Spec == Init /\ [][Next]_vars

\* The same caller on a thread that keeps running: inside purge it goes on
\* to its next statement, every transport request comes back (with a value or
\* an exception) and time.sleep returns.
FairSpec == Init /\ [][Next]_vars /\ WF_vars(purge_step("main"))

\* ------------------------------------------------------------------------
\* Specification of two threads on one controller: while no call runs, the
\* registry is set up; then the main thread runs a purge, and while it runs
\* the second thread calls emergency_stop or purge.  No thread is given a
\* lock by the code, so the threads interleave statement by statement.  The
\* transport accepts every write.
\* ------------------------------------------------------------------------

\* emergency_stop() on thread t: "EMERGENCY STOP ACTIVATED", then the entry
\* into close_all_valves().  The record of the call notes where the purge of
\* the main thread stood when the call was made.
emergency_stop_begin(t) ==
    /\ pc[t] = "idle"
    /\ call[t] = NoCall
    /\ it' = [it EXCEPT ![t] = 1]
    /\ pc' = [pc EXCEPT ![t] = IF Len(mfcs_order) = 0 THEN "idle" ELSE "close_all"]
    /\ Returns(t, Call("emergency_stop", pc["main"], IF Len(mfcs_order) = 0 THEN "ok" ELSE "running", <<Ev("close_all_valves", NoDev, 0, TRUE)>>))
    /\ UNCHANGED <<mfcs, mfcs_order, cori_flows, cori_order, setpoint, air_name, pending>>
    /\ CalFrame

\* close_all_valves() on thread t, one iteration of the loop over
\* self._mfcs.values(); after the last one emergency_stop returns.
emergency_stop_close(t, ok) ==
    /\ pc[t] = "close_all"
    /\ it[t] <= Len(mfcs_order)
    /\ LET name == mfcs_order[it[t]]
           c == close_valve(name, mfcs[name], setpoint[name], ok)
           last == it[t] + 1 > Len(mfcs_order)
       IN
       /\ ok \/ is_connected(mfcs[name])
       /\ IF is_connected(mfcs[name]) THEN
              /\ Commands(t, name, c, IF last THEN "idle" ELSE "close_all")
              /\ Continue(t, IF last THEN "ok" ELSE "running", c.trace)
          ELSE
              /\ pc' = [pc EXCEPT ![t] = IF last THEN "idle" ELSE "close_all"]
              /\ Continue(t, IF last THEN "ok" ELSE "running", <<>>)
              /\ UNCHANGED <<mfcs, setpoint, pending>>
    /\ it' = [it EXCEPT ![t] = @ + 1]
    /\ UNCHANGED <<mfcs_order, cori_flows, cori_order, air_name>>
    /\ CalFrame

\* The next statement of thread t inside purge or emergency_stop.
thread_step(t) ==
    \/ purge_close_fuel(t, TRUE)
    \/ purge_open_air(t, TRUE, {})
    \/ purge_sleep(t)
    \/ purge_close_air(t, TRUE)
    \/ emergency_stop_close(t, TRUE)
    \/ store(t)

ConcNext ==
    \/ \E n \in MfcNames, a \in BOOLEAN : add_mfc(n, n, a, TRUE)
    \/ \E n \in MfcNames, v \in 0..MaxFlow : set_flow(n, v, TRUE)
    \/ \E o \in PurgeOverrides : AllIdle /\ purge_begin("main", o)
    \/ pc["main"] # "idle" /\ emergency_stop_begin("aux")
    \/ pc["main"] # "idle" /\ \E o \in PurgeOverrides : purge_begin("aux", o)
    \/ thread_step("main")
    \/ thread_step("aux")
    \/ ret("main")
    \/ ret("aux")

\* Each thread keeps running: it goes on to its next statement.
ConcSpec == Init /\ [][ConcNext]_vars /\ WF_vars(thread_step("main")) /\ WF_vars(thread_step("aux"))

\* ------------------------------------------------------------------------
\* Specification of the devices: a caller registers devices of one gas and
\* uses each device object directly
\* ------------------------------------------------------------------------

\* The names and the gas the caller registers controllable devices with.
DeviceNames == {"Air", "CH4"}
DeviceGas == "CH4"

\* Every element all_devices can hold.
AnyDevice == {Mfc(n) : n \in MfcNames} \cup {Cori(n) : n \in CoriNames}

DeviceNext ==
    \/ \E n \in DeviceNames, a \in BOOLEAN, k \in BOOLEAN : add_mfc(n, DeviceGas, a, k)
    \/ \E n \in CoriNames, a \in BOOLEAN, k \in BOOLEAN : add_cori_flow(n, a, k)
    \/ \E x \in AnyDevice : \E h \in Handles(x[2]) : device_connect(x, h)
    \/ \E x \in AnyDevice : device_disconnect(x)
    \/ \E n \in DeviceNames, v \in FlowArgs, w \in BOOLEAN : set_flow(n, v, w)
    \/ \E n \in DeviceNames, v \in RealArgs, w \in BOOLEAN : set_real(n, v, w)
    \/ \E n \in DeviceNames, w \in BOOLEAN : close(n, w)
    \/ \E x \in AnyDevice, op \in BaseOps \cup MfcOps, o \in TransportOutcomes : device_op(x, op, o)
    \/ ret("main")

DeviceSpec == Init /\ [][DeviceNext]_vars

\* ------------------------------------------------------------------------
\* Calibration on its own: tables a caller constructs and converts with
\* ------------------------------------------------------------------------

\* Most points a caller passes to Calibration(...) on either side.
MaxCalLen == 3

\* Largest device-side value of a calibration point.
MaxCalPoint == 2

\* Device-side values of calibration points.
MfcPoints == {Float(v) : v \in 0..MaxCalPoint}

\* Real-flow values of calibration points (not proportional to the device side).
RealPoints == {Float((v * (v + 1)) \div 2) : v \in 0..MaxCalPoint}

\* The sequences over S of up to MaxCalLen elements.
Lists(S) == UNION {[1..n -> S] : n \in 0..MaxCalLen}

\* Values converted with mfc_to_real: on, between and beyond the points.
MfcQueries == {Rat(k, 2) : k \in (-2)..(2 * MaxCalPoint + 2)}

\* Values converted with real_to_mfc.
RealQueries == {Rat(k, 2) : k \in (-2)..(MaxCalPoint * (MaxCalPoint + 1) + 2)}

\* The controller is not involved.
ControllerFrame == UNCHANGED <<mfcs, mfcs_order, cori_flows, cori_order, setpoint, pc, air_name, it, call, pending, calibrations>>

\* cal = Calibration(mfc_values, real_values)
new_calibration(mfc_values, real_values, sort_idx) ==
    /\ cal = NoCal
    /\ sort_idx \in argsort(mfc_values)
    /\ LET c == Calibration(mfc_values, real_values, sort_idx) IN
       cal' = [args |-> <<mfc_values, real_values>>, result |-> c.result, mfc_values |-> c.mfc_values, real_values |-> c.real_values]
    /\ UNCHANGED conv
    /\ ControllerFrame

\* cal.mfc_to_real(mfc_value)
call_mfc_to_real(mfc_value) ==
    /\ cal.result = "ok"
    /\ conv = <<>>
    /\ conv' = <<[op |-> "mfc_to_real", x |-> mfc_value, y |-> mfc_to_real(cal, mfc_value)]>>
    /\ UNCHANGED cal
    /\ ControllerFrame

\* cal.real_to_mfc(real_value)
call_real_to_mfc(real_value, sort_idx) ==
    /\ cal.result = "ok"
    /\ conv = <<>>
    /\ sort_idx \in argsort(cal.real_values)
    /\ conv' = <<[op |-> "real_to_mfc", x |-> real_value, y |-> real_to_mfc(cal, real_value, sort_idx)]>>
    /\ UNCHANGED cal
    /\ ControllerFrame

\* cal.real_to_mfc(real_val) on the real_val that cal.mfc_to_real just returned
roundtrip(sort_idx) ==
    /\ cal.result = "ok"
    /\ Len(conv) = 1
    /\ conv[1].op = "mfc_to_real"
    /\ sort_idx \in argsort(cal.real_values)
    /\ conv' = Append(conv, [op |-> "real_to_mfc", x |-> conv[1].y, y |-> real_to_mfc(cal, conv[1].y, sort_idx)])
    /\ UNCHANGED cal
    /\ ControllerFrame

\* The caller is done with the values converted so far.
drop_values ==
    /\ conv # <<>>
    /\ conv' = <<>>
    /\ UNCHANGED cal
    /\ ControllerFrame

CalNext ==
    \/ cal = NoCal /\ \E m \in Lists(MfcPoints), r \in Lists(RealPoints) : \E p \in argsort(m) : new_calibration(m, r, p)
    \/ conv = <<>> /\ \E x \in MfcQueries : call_mfc_to_real(x)
    \/ conv = <<>> /\ \E y \in RealQueries : \E p \in argsort(cal.real_values) : call_real_to_mfc(y, p)
    \/ Len(conv) = 1 /\ \E p \in argsort(cal.real_values) : roundtrip(p)
    \/ drop_values

CalSpec == Init /\ [][CalNext]_vars

\* ------------------------------------------------------------------------
\* Properties
\* ------------------------------------------------------------------------

\* The call of the single caller, and its events.
MainCall == call["main"]
Tr == MainCall.trace

\* The positions of the trace with an event of this kind on this device.
At(kind, dev) == {i \in 1..Len(Tr) : Tr[i].ev = kind /\ Tr[i].dev = dev}

\* The positions of the zero-setpoint writes to controllable device n.
ZeroWrites(n) == {i \in At("write", Mfc(n)) : Tr[i].val = 0}

\* The positions of the setpoint writes to n that the transport accepted.
AcceptedWrites(n) == {i \in At("write", Mfc(n)) : Tr[i].ok}

\* The positions at which close_all_valves() was entered.
CloseAllEntries == At("close_all_valves", NoDev)

\* Whether the call dwelled.
Dwelled == At("sleep", NoDev) # {}

\* C1: a purge whose air MFC name is not registered never reaches the dwell;
\* it returns normally after entering close_all_valves(), which attempts a
\* zero-setpoint write on every connected device, and every connected device
\* with an accepted write ends with setpoint 0.
C1_PurgeWithoutMedium ==
    (MainCall.op = "purge" /\ MainCall.arg \notin DOMAIN mfcs) =>
        /\ pc["main"] \notin {"sleep", "close_air"}
        /\ ~Dwelled
        /\ pc["main"] = "idle" =>
            /\ MainCall.result = "ok"
            /\ \E k \in CloseAllEntries : \A n \in ConnectedMfcs : \E i \in ZeroWrites(n) : i > k
            /\ \A n \in ConnectedMfcs : AcceptedWrites(n) # {} => setpoint[n] = 0

\* C1 witness: such a purge has returned with two devices connected, one
\* write rejected and one accepted.
C1_Witness ==
    /\ MainCall.op = "purge" /\ pc["main"] = "idle"
    /\ MainCall.arg \notin DOMAIN mfcs
    /\ Cardinality(ConnectedMfcs) = 2
    /\ \E n \in ConnectedMfcs : AcceptedWrites(n) = {}
    /\ \E n \in ConnectedMfcs : AcceptedWrites(n) # {}

\* C2: close_all_valves() returns normally and has attempted a zero-setpoint
\* write on every connected device; each device whose write was accepted has
\* setpoint 0, whichever other writes were rejected.
C2_CloseAllTolerates ==
    MainCall.op = "close_all_valves" =>
        /\ MainCall.result = "ok"
        /\ \A n \in ConnectedMfcs :
            /\ ZeroWrites(n) # {}
            /\ (\E i \in ZeroWrites(n) : Tr[i].ok) => (setpoint[n] = 0 /\ mfcs[n].last_setpoint = 0)

\* C2 witness: the first device's write was rejected, leaving its setpoint
\* open, and a later device was closed.
C2_Witness ==
    /\ MainCall.op = "close_all_valves"
    /\ \E n, m \in ConnectedMfcs :
        /\ \E i \in ZeroWrites(n), j \in ZeroWrites(m) : i < j /\ ~Tr[i].ok /\ Tr[j].ok
        /\ setpoint[n] # 0
        /\ setpoint[m] = 0

\* C3: when the transport rejects the purge-flow write to the air MFC, purge
\* has returned normally without a dwell, after entering close_all_valves(),
\* which attempts a zero-setpoint write on every connected device.
C3_PurgeWriteFails ==
    \A f \in 1..Len(Tr) :
        (MainCall.op = "purge" /\ Tr[f] = Ev("write", Mfc(MainCall.arg), PurgeFlow, FALSE)) =>
            /\ pc["main"] = "idle"
            /\ MainCall.result = "ok"
            /\ ~Dwelled
            /\ \E k \in CloseAllEntries : k > f /\ \A n \in ConnectedMfcs : \E i \in ZeroWrites(n) : i > k

\* C3 witness: the purge-flow write was rejected and the fallback closed
\* the air MFC and another device.
C3_Witness ==
    /\ MainCall.op = "purge" /\ pc["main"] = "idle"
    /\ At("write", Mfc(MainCall.arg)) # {}
    /\ \E f \in At("write", Mfc(MainCall.arg)) : Tr[f].val = PurgeFlow /\ ~Tr[f].ok
    /\ Cardinality(ConnectedMfcs) = 2
    /\ \A n \in ConnectedMfcs : setpoint[n] = 0

\* The events of a purge on air MFC a in which no write is rejected: the
\* closes of the other connected devices in registry order, the purge-flow
\* write through set_flow_mfc, the dwell, the close of the air MFC.
FuelOf(a) == SelectSeq(mfcs_order, LAMBDA n : n # a /\ is_connected(mfcs[n]))
PurgeSequence(a) == [i \in 1..Len(FuelOf(a)) |-> Ev("write", Mfc(FuelOf(a)[i]), 0, TRUE)] \o <<Ev("write", Mfc(a), PurgeFlow, TRUE), Ev("sleep", NoDev, 0, TRUE), Ev("write", Mfc(a), 0, TRUE)>>

\* C4: in a purge whose air MFC is registered and connected and in which no
\* write has been rejected, the events so far are a prefix of: closes of the
\* other connected devices, purge-flow write to the air MFC, dwell, close of
\* the air MFC; each step is reached with exactly the earlier ones done, and
\* on return every connected device has setpoint 0.
C4_PurgeOrder ==
    (/\ MainCall.op = "purge"
     /\ MainCall.arg \in DOMAIN mfcs
     /\ is_connected(mfcs[MainCall.arg])
     /\ \A i \in 1..Len(Tr) : Tr[i].ok) =>
        LET a == MainCall.arg
            k == Len(FuelOf(a))
        IN
        /\ Len(Tr) <= k + 3
        /\ Tr = SubSeq(PurgeSequence(a), 1, Len(Tr))
        /\ pc["main"] = "close_fuel" => Len(Tr) <= k
        /\ pc["main"] = "open_air" => Len(Tr) = k
        /\ pc["main"] = "sleep" => Len(Tr) = k + 1
        /\ pc["main"] = "close_air" => Len(Tr) = k + 2
        /\ pc["main"] = "idle" =>
            /\ Len(Tr) = k + 3
            /\ MainCall.result = "ok"
            /\ \A n \in ConnectedMfcs : setpoint[n] = 0

\* C4 witness: a complete purge with a fuel device closed before the air
\* MFC was opened.
C4_Witness ==
    /\ MainCall.op = "purge" /\ pc["main"] = "idle"
    /\ MainCall.arg \in DOMAIN mfcs
    /\ Len(FuelOf(MainCall.arg)) = 1
    /\ Tr = PurgeSequence(MainCall.arg)

\* C5: remove_mfc on a registered, connected device attempts the zero write
\* first, does not raise even when that write is rejected, releases the
\* handle and deletes the entry.
C5_RemoveBestEffort ==
    (MainCall.op = "remove_mfc" /\ At("write", Mfc(MainCall.arg)) # {}) =>
        /\ Tr[1].ev = "write" /\ Tr[1].dev = Mfc(MainCall.arg) /\ Tr[1].val = 0
        /\ MainCall.result = "ok"
        /\ \E j \in At("disconnect", Mfc(MainCall.arg)) : j > 1
        /\ MainCall.arg \notin DOMAIN mfcs

\* C6: emergency_stop() returns normally, the air MFC registered or not and
\* whichever writes are rejected, and every connected device whose zero
\* write was accepted has setpoint 0.
C6_EmergencyStopNeverRaises ==
    MainCall.op = "emergency_stop" =>
        /\ MainCall.result = "ok"
        /\ \A n \in ConnectedMfcs : (\E i \in ZeroWrites(n) : Tr[i].ok) => setpoint[n] = 0

\* C6 witness: an emergency stop without an air MFC, with one write rejected
\* and one accepted.
C6_Witness ==
    /\ MainCall.op = "emergency_stop"
    /\ DefaultAir \notin DOMAIN mfcs
    /\ \E n, m \in ConnectedMfcs : ZeroWrites(n) # {} /\ AcceptedWrites(n) = {} /\ AcceptedWrites(m) # {}

\* C7: disconnect_all() returns with every device of both collections
\* disconnected, and every zero-setpoint write it attempted (one on each
\* controllable device that was connected) comes before every handle release.
C7_DisconnectAllClosesFirst ==
    MainCall.op = "disconnect_all" =>
        /\ MainCall.result = "ok"
        /\ \A n \in DOMAIN mfcs : ~mfcs[n].connected /\ mfcs[n].instrument = None
        /\ \A n \in DOMAIN cori_flows : ~cori_flows[n].connected /\ cori_flows[n].instrument = None
        /\ \A n \in DOMAIN mfcs : At("disconnect", Mfc(n)) # {} => ZeroWrites(n) # {}
        /\ \A i, j \in 1..Len(Tr) : (Tr[i].ev = "write" /\ Tr[j].ev = "disconnect") => i < j

\* C7 witness: two controllable devices and a meter were connected; one zero
\* write was rejected; all three handles were released.
C7_Witness ==
    /\ MainCall.op = "disconnect_all"
    /\ Cardinality({i \in 1..Len(Tr) : Tr[i].ev = "write"}) = 2
    /\ \E i \in 1..Len(Tr) : Tr[i].ev = "write" /\ ~Tr[i].ok
    /\ Cardinality({i \in 1..Len(Tr) : Tr[i].ev = "disconnect"}) = 3

\* C8: connect_all() does not raise when one handle cannot be acquired, and
\* connects every other registered device.
C8_ConnectAllTolerates ==
    MainCall.op = "connect_all" =>
        /\ MainCall.result = "ok"
        /\ \A x \in Range(all_devices) : is_connected(DeviceOf(x)) \/ (\E i \in At("connect", x) : ~Tr[i].ok)

\* C9: wink_all() and check_all_deviations() do not raise when the operation
\* fails on one connected device, and apply it to every connected device.
C9_WinkAndCheckTolerate ==
    /\ MainCall.op = "wink_all" => (MainCall.result = "ok" /\ \A x \in ConnectedDevices : At("wink", x) # {})
    /\ MainCall.op = "check_all_deviations" => (MainCall.result = "ok" /\ \A n \in ConnectedMfcs : At("check_deviation", Mfc(n)) # {})

\* C10: add_mfc with a name already registered raises ValueError and changes
\* neither the existing object (calibration, connection flag, handle, last
\* commanded setpoint) nor anything else in the two collections.
C10_AddDuplicateRejected ==
    [][(call["main"] = NoCall /\ call'["main"].op = "add_mfc" /\ call'["main"].arg \in DOMAIN mfcs) =>
        /\ call'["main"].result = "ValueError"
        /\ mfcs' = mfcs
        /\ mfcs_order' = mfcs_order
        /\ cori_flows' = cori_flows
        /\ cori_order' = cori_order
        /\ setpoint' = setpoint]_vars

\* C10 witness: the duplicate add was rejected while the existing device is
\* connected with a nonzero last commanded setpoint.
C10_Witness ==
    /\ MainCall.op = "add_mfc"
    /\ MainCall.result = "ValueError"
    /\ MainCall.arg \in DOMAIN mfcs
    /\ is_connected(mfcs[MainCall.arg])
    /\ mfcs[MainCall.arg].last_setpoint # 0
    /\ Len(mfcs_order) = 2

\* The registry and the device side, as one value.
Registry == <<mfcs, mfcs_order, cori_flows, cori_order, setpoint>>

\* The step in which the caller's call op(arg) is made and runs to its outcome.
Calls(ops) == call["main"] = NoCall /\ call'["main"].op \in ops

\* C11: get_mfc and remove_mfc with a name that is not a key of _mfcs, and
\* get_cori_flow and remove_cori_flow with a name that is not a key of
\* _cori_flows, raise KeyError (no device is returned) and leave both
\* collections, every device object and every device-side setpoint unchanged.
C11_UnknownNameFails ==
    [][/\ (Calls({"get_mfc", "remove_mfc"}) /\ call'["main"].arg \notin DOMAIN mfcs) =>
            (call'["main"].result = "KeyError" /\ call'["main"].trace = <<>> /\ Registry' = Registry)
       /\ (Calls({"get_cori_flow", "remove_cori_flow"}) /\ call'["main"].arg \notin DOMAIN cori_flows) =>
            (call'["main"].result = "KeyError" /\ call'["main"].trace = <<>> /\ Registry' = Registry)]_vars

\* C11 witness: a meter lookup failed for a name that the other collection
\* holds, connected.
C11_Witness ==
    /\ MainCall.op = "get_cori_flow"
    /\ MainCall.result = "KeyError"
    /\ MainCall.arg \in ConnectedMfcs
    /\ MainCall.arg \notin DOMAIN cori_flows

\* The device objects of both collections.
Devices == {mfcs[n] : n \in DOMAIN mfcs} \cup {cori_flows[n] : n \in DOMAIN cori_flows}

\* C14: every registered device that reports itself connected holds a handle,
\* its _connected flag is set exactly when it holds one, and a device that an
\* add has just constructed without connecting it is disconnected and holds
\* no handle.
C14_ConnectedHasHandle ==
    /\ \A d \in Devices : (is_connected(d) => d.instrument # None) /\ (d.connected <=> d.instrument # None)
    /\ (MainCall.op = "add_mfc" /\ MainCall.result # "ValueError" /\ At("connect", Mfc(MainCall.arg)) \subseteq {i \in 1..Len(Tr) : ~Tr[i].ok}) =>
           (~is_connected(mfcs[MainCall.arg]) /\ mfcs[MainCall.arg].instrument = None /\ ~mfcs[MainCall.arg].connected)
    /\ (MainCall.op = "add_cori_flow" /\ MainCall.result # "ValueError" /\ At("connect", Cori(MainCall.arg)) \subseteq {i \in 1..Len(Tr) : ~Tr[i].ok}) =>
           (~is_connected(cori_flows[MainCall.arg]) /\ cori_flows[MainCall.arg].instrument = None /\ ~cori_flows[MainCall.arg].connected)

\* C14 witness: a disconnect_all() has released the handles of a controllable
\* device and of a meter that were connected.
C14_Witness ==
    /\ MainCall.op = "disconnect_all"
    /\ \E n \in DOMAIN mfcs : At("disconnect", Mfc(n)) # {} /\ mfcs[n].instrument = None
    /\ \E n \in DOMAIN cori_flows : At("disconnect", Cori(n)) # {} /\ cori_flows[n].instrument = None

\* A sequence without repeated elements.
NoDuplicates(s) == \A i, j \in 1..Len(s) : s[i] = s[j] => i = j

\* C17: each collection holds each name once (its keys, in insertion order,
\* are pairwise different and are exactly its entries), and the collections
\* are independent namespaces: an add or remove on one leaves the other
\* unchanged, an add of a name the addressed collection does not hold is not
\* refused as a duplicate and registers it, and a remove of a name the
\* addressed collection holds is not refused as unknown, whatever the other
\* collection holds.
C17_NamesUniquePerCollection ==
    /\ [](/\ NoDuplicates(mfcs_order) /\ Range(mfcs_order) = DOMAIN mfcs
          /\ NoDuplicates(cori_order) /\ Range(cori_order) = DOMAIN cori_flows)
    /\ [][/\ Calls({"add_mfc", "remove_mfc"}) => UNCHANGED <<cori_flows, cori_order>>
          /\ Calls({"add_cori_flow", "remove_cori_flow"}) => UNCHANGED <<mfcs, mfcs_order, setpoint>>
          /\ (Calls({"add_mfc"}) /\ call'["main"].arg \notin DOMAIN mfcs) =>
                (call'["main"].result # "ValueError" /\ call'["main"].arg \in DOMAIN mfcs')
          /\ (Calls({"add_cori_flow"}) /\ call'["main"].arg \notin DOMAIN cori_flows) =>
                (call'["main"].result # "ValueError" /\ call'["main"].arg \in DOMAIN cori_flows')
          /\ (Calls({"remove_mfc"}) /\ call'["main"].arg \in DOMAIN mfcs) => call'["main"].result # "KeyError"
          /\ (Calls({"remove_cori_flow"}) /\ call'["main"].arg \in DOMAIN cori_flows) =>
                (call'["main"].result = "ok" /\ call'["main"].arg \notin DOMAIN cori_flows')]_vars

\* C17 witness: a meter was registered under the name of a connected
\* controllable device registered before it.
C17_Witness ==
    /\ MainCall.op = "add_cori_flow"
    /\ MainCall.result = "ok"
    /\ MainCall.arg \in DOMAIN cori_flows
    /\ MainCall.arg \in ConnectedMfcs
    /\ Len(mfcs_order) = 2

\* Sequences of floats in ascending and in strictly ascending order.
Ascending(v) == \A i \in 1..(Len(v) - 1) : RLeq(v[i], v[i + 1])
StrictlyAscending(v) == \A i \in 1..(Len(v) - 1) : RLess(v[i], v[i + 1])

\* The one-to-one index sequences of length n.
IndexOrders(n) == {q \in [1..n -> 1..n] : \A i, j \in 1..n : q[i] = q[j] => i = j}

\* C18: Calibration(mfc_values, real_values) raises ValueError, and yields
\* no object, exactly when the two sequences differ in length or have fewer
\* than two points; otherwise the object holds every given pair, none
\* dropped, in ascending order of the device value.
C18_CalibrationValidates ==
    cal.result # "none" =>
        LET m == cal.args[1]
            r == cal.args[2]
        IN  /\ cal.result = "ValueError" <=> (Len(m) # Len(r) \/ Len(m) < 2)
            /\ cal.result = "ValueError" => (cal.mfc_values = <<>> /\ cal.real_values = <<>>)
            /\ cal.result # "ValueError" =>
                  /\ cal.result = "ok"
                  /\ Ascending(cal.mfc_values)
                  /\ \E q \in IndexOrders(Len(m)) : cal.mfc_values = Take(m, q) /\ cal.real_values = Take(r, q)

\* C18 witness: three pairs given in descending device order were stored.
C18_Witness ==
    /\ cal.result = "ok"
    /\ Len(cal.args[1]) = 3
    /\ \A i \in 1..2 : RLess(cal.args[1][i + 1], cal.args[1][i])
    /\ cal.real_values # cal.args[2]

\* C19: on a table strictly increasing on both sides, converting a device
\* value inside the table's device range to a real flow and that real flow
\* back yields the device value.
C19_RoundTrip ==
    (/\ Len(conv) = 2
     /\ StrictlyAscending(cal.mfc_values)
     /\ StrictlyAscending(cal.real_values)
     /\ RLeq(cal.mfc_values[1], conv[1].x)
     /\ RLeq(conv[1].x, cal.mfc_values[Len(cal.mfc_values)])) =>
        conv[2].y = conv[1].x

\* C19 witness: a round trip on a three-point table with a bend, from a
\* device value between two points, through a real flow that differs from it.
C19_Witness ==
    /\ Len(conv) = 2
    /\ Len(cal.mfc_values) = 3
    /\ StrictlyAscending(cal.mfc_values)
    /\ StrictlyAscending(cal.real_values)
    /\ cal.real_values # cal.mfc_values
    /\ RLess(cal.mfc_values[2], conv[1].x)
    /\ RLess(conv[1].x, cal.mfc_values[3])
    /\ conv[1].y # conv[1].x
    /\ conv[2].y = conv[1].x

\* C20: on a table strictly increasing on the side converted from, every
\* conversion yields the value of the line through the two adjacent points
\* inside the table and of the edge segment's line beyond it, mfc_to_real on
\* the pairs ordered by device value and real_to_mfc on the pairs ordered
\* by real value.
C20_InterpolatesAndExtrapolates ==
    \A i \in 1..Len(conv) :
        /\ (conv[i].op = "mfc_to_real" /\ StrictlyAscending(cal.mfc_values)) =>
              conv[i].y = Interp_extrapolating(conv[i].x, cal.mfc_values, cal.real_values)
        /\ (conv[i].op = "real_to_mfc" /\ \A a, b \in 1..Len(cal.real_values) : cal.real_values[a] = cal.real_values[b] => a = b) =>
              LET q == CHOOSE q \in argsort(cal.real_values) : TRUE IN
              conv[i].y = Interp_extrapolating(conv[i].x, Take(cal.real_values, q), Take(cal.mfc_values, q))

\* The object of device x in the collections ms and cs.
DeviceIn(ms, cs, x) == IF x[1] = "mfc" THEN ms[x[2]] ELSE cs[x[2]]

\* The operations that command a setpoint.
SetOps == {"set_flow_mfc", "set_flow_real", "close_valve"}

\* C12: on every registered controllable device, connected or not,
\* set_flow_mfc and set_flow_real with a negative value raise ValueError,
\* write nothing to the transport and leave the object (its last commanded
\* setpoint included) and the device-side setpoint as they were; and a call
\* of either that ends in ValueError has changed nothing.
C12_NegativeFlowRejected ==
    /\ [](\A n \in DOMAIN mfcs, v \in {a \in FlowArgs \cup RealArgs : a < 0}, ok \in BOOLEAN :
            LET r == set_flow_mfc(n, mfcs[n], setpoint[n], v, ok)
                q == set_flow_real(n, mfcs[n], setpoint[n], v, ok, <<>>)
            IN  /\ r.result = "ValueError" /\ r.trace = <<>> /\ r.dev = mfcs[n] /\ r.sp = setpoint[n]
                /\ q.result = "ValueError" /\ q.trace = <<>> /\ q.dev = mfcs[n] /\ q.sp = setpoint[n])
    /\ [][(Calls({"set_flow_mfc", "set_flow_real"}) /\ call'["main"].result = "ValueError") =>
            (call'["main"].trace = <<>> /\ Registry' = Registry)]_vars

\* C12 witness: set_flow_real was refused with ValueError on a connected
\* device whose last commanded setpoint is not zero.
C12_Witness ==
    /\ MainCall.op = "set_flow_real"
    /\ MainCall.result = "ValueError"
    /\ MainCall.arg \in ConnectedMfcs
    /\ mfcs[MainCall.arg].last_setpoint # 0
    /\ setpoint[MainCall.arg] # 0

\* C13: on every registered device that is not connected (one that never was
\* included), every read, wink, check_deviation and, for a value that is not
\* negative, set_flow_mfc, set_flow_real and close_valve raises
\* ConnectionError, reaches no transport and leaves the object and the device
\* side as they were; and a call that ends in ConnectionError has changed
\* nothing.
C13_NotConnectedFails ==
    /\ [](/\ \A x \in Range(all_devices), op \in BaseOps \cup MfcOps, o \in TransportOutcomes :
               (~is_connected(DeviceOf(x)) /\ op \in OpsOf(x)) => DeviceOpResult(DeviceOf(x), op, o) = "ConnectionError"
          /\ \A n \in DOMAIN mfcs, v \in {a \in FlowArgs \cup RealArgs : a >= 0}, ok \in BOOLEAN :
               ~is_connected(mfcs[n]) =>
                   LET r == set_flow_mfc(n, mfcs[n], setpoint[n], v, ok)
                       q == set_flow_real(n, mfcs[n], setpoint[n], v, ok, CHOOSE p \in argsort(CalibrationOf(mfcs[n]).real_values) : TRUE)
                       c == close_valve(n, mfcs[n], setpoint[n], ok)
                   IN  \A z \in {r, q, c} : z.result = "ConnectionError" /\ z.trace = <<>> /\ z.dev = mfcs[n] /\ z.sp = setpoint[n])
    /\ [][(call["main"] = NoCall /\ call'["main"].result = "ConnectionError") =>
            (call'["main"].trace = <<>> /\ Registry' = Registry)]_vars

\* C13 witness: a read of the setpoint failed with ConnectionError on a
\* controllable device that holds no handle, while the meter is connected.
C13_Witness ==
    /\ MainCall.op = "read_setpoint_real"
    /\ MainCall.result = "ConnectionError"
    /\ mfcs[MainCall.arg[2]].instrument = None
    /\ ~mfcs[MainCall.arg[2]].connected
    /\ \E n \in DOMAIN cori_flows : is_connected(cori_flows[n])

\* C15: disconnect() leaves the device with no handle and the flag cleared
\* and does not fail, and on a device that was already disconnected it
\* changes nothing; connect(h) leaves the device connected with handle h,
\* whatever handle it held before.
C15_ConnectDisconnect ==
    [][/\ Calls({"disconnect"}) =>
            LET x == call'["main"].arg
                d == DeviceIn(mfcs', cori_flows', x)
            IN  /\ call'["main"].result = "ok"
                /\ d.instrument = None /\ ~d.connected /\ ~is_connected(d)
                /\ ~is_connected(DeviceOf(x)) => Registry' = Registry
       /\ Calls({"connect"}) =>
            LET x == call'["main"].arg
                d == DeviceIn(mfcs', cori_flows', x)
            IN  /\ call'["main"].result = "ok"
                /\ d.instrument = call'["main"].trace[2].val /\ d.connected /\ is_connected(d)]_vars

\* C15 witness: connect(h) on a device that held another handle.
C15_Witness ==
    /\ MainCall.op = "connect"
    /\ Tr[1].val # None
    /\ Tr[1].val # Tr[2].val
    /\ DeviceOf(MainCall.arg).instrument = Tr[2].val

\* C16: a set_flow_mfc, set_flow_real or close_valve on one controllable
\* device leaves every other controllable device that refers to the same
\* Calibration object as it was (object and device-side setpoint), and
\* leaves the Calibration objects as they were.
C16_DevicesIsolated ==
    [][(Calls(SetOps) /\ call'["main"].arg \in DOMAIN mfcs) =>
          /\ calibrations' = calibrations
          /\ \A m \in DOMAIN mfcs \ {call'["main"].arg} :
                mfcs[m].calibration = mfcs[call'["main"].arg].calibration =>
                    (mfcs'[m] = mfcs[m] /\ setpoint'[m] = setpoint[m])]_vars

\* C16 witness: set_flow_real was accepted on one of two connected devices
\* of the same gas that share a DEFAULT_CALIBRATIONS entry, and the other
\* holds a different setpoint.
C16_Witness ==
    /\ MainCall.op = "set_flow_real"
    /\ MainCall.result = "ok"
    /\ \E m \in ConnectedMfcs \ {MainCall.arg} :
          /\ mfcs[m].calibration = mfcs[MainCall.arg].calibration
          /\ mfcs[m].calibration[1] = "default"
          /\ mfcs[m].last_setpoint # mfcs[MainCall.arg].last_setpoint
          /\ setpoint[m] # setpoint[MainCall.arg]

\* C21: with one caller, every purge returns normally, whatever devices are
\* registered or connected and whichever writes the transport rejects: while
\* it runs no exception has left it, it does return, and its outcome is a
\* normal return; a rejected close in step 1 or step 4 is followed by the
\* next step, and a missing air MFC or a rejected purge-flow write by
\* close_all_valves().
C21_PurgeTerminates ==
    /\ [](MainCall.op = "purge" => (MainCall.result \in {"running", "ok"} /\ (pc["main"] = "idle" => MainCall.result = "ok")))
    /\ [](\A i \in 1..Len(Tr) :
            (MainCall.op = "purge" /\ pc["main"] = "idle" /\ Tr[i].ev \in {"KeyError", "write"} /\ ~Tr[i].ok /\ Tr[i].val # 0) =>
                (i < Len(Tr) /\ Tr[i + 1].ev = "close_all_valves"))
    /\ (MainCall.op = "purge") ~> (MainCall.op = "purge" /\ pc["main"] = "idle")

\* C21 witness: a purge has returned in which the close of a fuel device and
\* the purge-flow write were rejected, and so was a close of the fallback.
C21_Witness ==
    /\ MainCall.op = "purge" /\ pc["main"] = "idle"
    /\ MainCall.result = "ok"
    /\ \E i, j, k \in 1..Len(Tr) :
          /\ i < j /\ j < k
          /\ Tr[i].ev = "write" /\ Tr[i].val = 0 /\ ~Tr[i].ok
          /\ Tr[j].ev = "write" /\ Tr[j].val = PurgeFlow /\ ~Tr[j].ok
          /\ Tr[k].ev = "write" /\ Tr[k].val = 0 /\ ~Tr[k].ok

\* Both threads have returned from their calls.
BothReturned == pc["main"] = "idle" /\ pc["aux"] = "idle"

\* Every connected controllable device is closed: the device-side setpoint
\* and the last commanded setpoint are 0.
AllClosed == \A n \in ConnectedMfcs : setpoint[n] = 0 /\ mfcs[n].last_setpoint = 0

\* The call of the second thread.
AuxCall == call["aux"]

\* The positions of thread t's trace with an accepted write of v to device n.
WritesBy(t, n, v) == {i \in 1..Len(call[t].trace) : call[t].trace[i] = Ev("write", Mfc(n), v, TRUE)}

\* C22: when the second thread calls emergency_stop() while the purge of the
\* main thread is in its dwell, then however the two interleave both calls
\* return, and once both have returned the air MFC and every connected
\* controllable device have setpoint 0.
C22_StopDuringDwell ==
    /\ []((AuxCall.op = "emergency_stop" /\ AuxCall.arg = "sleep" /\ BothReturned) =>
            (AllClosed /\ setpoint[air_name["main"]] = 0))
    /\ (AuxCall.op = "emergency_stop" /\ AuxCall.arg = "sleep") ~> BothReturned

\* C22 witness: both calls have returned; the emergency stop was called in
\* the dwell, with the air MFC at the purge flow, and both threads closed
\* the air MFC; a second device is connected.
C22_Witness ==
    /\ AuxCall.op = "emergency_stop" /\ AuxCall.arg = "sleep"
    /\ MainCall.op = "purge"
    /\ BothReturned
    /\ WritesBy("main", MainCall.arg, PurgeFlow) # {}
    /\ WritesBy("main", MainCall.arg, 0) # {}
    /\ WritesBy("aux", MainCall.arg, 0) # {}
    /\ Cardinality(ConnectedMfcs) = 2

\* C23: a purge that has reached its dwell found the air MFC registered and
\* connected, and its purge-flow write to the air MFC was accepted earlier
\* in the same call.
C23_DwellsOnlyWhenCommanded ==
    (MainCall.op = "purge" /\ (pc["main"] = "sleep" \/ Dwelled)) =>
        /\ MainCall.arg \in DOMAIN mfcs
        /\ is_connected(mfcs[MainCall.arg])
        /\ \E i \in At("write", Mfc(MainCall.arg)) :
              /\ Tr[i].val = PurgeFlow /\ Tr[i].ok
              /\ \A j \in At("sleep", NoDev) : i < j

\* C24: once the emergency_stop() of the second thread has returned, the
\* purge that was running on the main thread when it was called changes no
\* device-side setpoint to a value other than 0.
C24_EmergencyStopDominates ==
    [][(AuxCall.op = "emergency_stop" /\ pc["aux"] = "idle" /\ MainCall.op = "purge" /\ pc["main"] # "idle") =>
          \A n \in DOMAIN mfcs : setpoint'[n] # setpoint[n] => setpoint'[n] = 0]_vars

\* The calls of the SafetyManager that command devices.
SafetyOps == {"purge", "emergency_stop"}

\* C25: in a purge or an emergency_stop, every write of a value other than 0
\* is a write of purge to its air MFC, and no event concerns a read-only
\* meter; in every step of such a call each other controllable device keeps
\* its device-side setpoint and its last commanded setpoint or has them set
\* to 0, and the meters are left as they were.
C25_OnlyMediumOpened ==
    /\ [](MainCall.op \in SafetyOps =>
            \A i \in 1..Len(Tr) :
                /\ Tr[i].dev[1] # "cori"
                /\ (Tr[i].ev = "write" /\ Tr[i].val # 0) => (MainCall.op = "purge" /\ Tr[i].dev = Mfc(MainCall.arg)))
    /\ [][call'["main"].op \in SafetyOps =>
            /\ cori_flows' = cori_flows
            /\ \A n \in DOMAIN mfcs :
                  (call'["main"].op = "purge" /\ n = call'["main"].arg) \/
                     (/\ setpoint'[n] = setpoint[n] \/ setpoint'[n] = 0
                      /\ mfcs'[n].last_setpoint = mfcs[n].last_setpoint \/ mfcs'[n].last_setpoint = 0)]_vars

\* C25 witness: a purge has returned that opened its air MFC and closed a
\* second device, with a connected meter registered.
C25_Witness ==
    /\ MainCall.op = "purge" /\ pc["main"] = "idle"
    /\ WritesBy("main", MainCall.arg, PurgeFlow) # {}
    /\ \E n \in ConnectedMfcs \ {MainCall.arg} : WritesBy("main", n, 0) # {}
    /\ \E n \in DOMAIN cori_flows : is_connected(cori_flows[n])

\* The second thread runs a purge on the air MFC of the main thread's purge.
SecondPurge == AuxCall.op = "purge" /\ AuxCall.arg = air_name["main"]

\* C26: when the second thread calls purge on the same air MFC while the
\* purge of the main thread runs, then however the two interleave both calls
\* return, and once both have returned every connected controllable device,
\* the air MFC included, has setpoint 0.
C26_ConcurrentPurges ==
    /\ []((SecondPurge /\ BothReturned) => AllClosed)
    /\ SecondPurge ~> BothReturned

\* C26 witness: both purges have returned, each having opened and closed
\* the connected air MFC and closed a connected fuel device.
C26_Witness ==
    /\ SecondPurge /\ BothReturned
    /\ MainCall.op = "purge"
    /\ \A t \in Threads :
          /\ WritesBy(t, AuxCall.arg, PurgeFlow) # {}
          /\ WritesBy(t, AuxCall.arg, 0) # {}
          /\ \E n \in ConnectedMfcs \ {AuxCall.arg} : WritesBy(t, n, 0) # {}

\* The add whose connection could not be acquired: the call that has just
\* been made, on the collection it addresses.
FailedAdd(op, dev) == call'["main"].op = op /\ call'["main"].trace = <<Ev("connect", dev, 0, FALSE)>>

\* C27: an add_mfc or add_cori_flow with auto_connect whose handle cannot
\* be acquired ends in the acquisition's exception, and has registered the
\* new device, disconnected and without a handle; the name is then taken, so
\* the same add made again is refused as a duplicate.
C27_FailedAutoConnectStaysRegistered ==
    /\ [][\A n \in MfcNames \cup CoriNames :
            /\ (Calls({"add_mfc"}) /\ FailedAdd("add_mfc", Mfc(n))) =>
                  /\ call'["main"].result = "AcquireError"
                  /\ n \notin DOMAIN mfcs /\ n \in DOMAIN mfcs' /\ mfcs_order' = Append(mfcs_order, n)
                  /\ mfcs'[n] = NewMFC(n, ResolveCalibration(n)) /\ ~is_connected(mfcs'[n])
            /\ (Calls({"add_cori_flow"}) /\ FailedAdd("add_cori_flow", Cori(n))) =>
                  /\ call'["main"].result = "AcquireError"
                  /\ n \notin DOMAIN cori_flows /\ n \in DOMAIN cori_flows' /\ cori_order' = Append(cori_order, n)
                  /\ cori_flows'[n] = NewCori /\ ~is_connected(cori_flows'[n])]_vars
    /\ []((MainCall.op = "add_mfc" /\ MainCall.result = "AcquireError") => name_taken(mfcs, MainCall.arg))
    /\ []((MainCall.op = "add_cori_flow" /\ MainCall.result = "AcquireError") => cori_name_taken(mfcs, cori_flows, MainCall.arg))
    /\ [][(Calls({"add_mfc"}) /\ call'["main"].arg \in DOMAIN mfcs /\ ~is_connected(mfcs[call'["main"].arg])) =>
            (call'["main"].result = "ValueError" /\ mfcs' = mfcs)]_vars

\* C27 witness: the add of a second controllable device has failed to
\* connect and the device is registered, disconnected, after the first.
C27_Witness ==
    /\ MainCall.op = "add_mfc"
    /\ MainCall.result = "AcquireError"
    /\ Len(mfcs_order) = 2
    /\ mfcs_order[2] = MainCall.arg
    /\ ~is_connected(mfcs[MainCall.arg])
    /\ mfcs[MainCall.arg].instrument = None

\* The last commanded setpoint of every registered controllable device.
LastSetpoints == [n \in DOMAIN mfcs |-> mfcs[n].last_setpoint]

\* C28: the last commanded setpoint of every controllable device is the
\* value of the latest setpoint write the transport accepted from it, 0 if
\* there was none: a set_flow_mfc, set_flow_real or close_valve that the
\* transport accepts sets it to the value written, one that ends in
\* ValueError, ConnectionError or the transport's exception leaves it as it
\* was, and so do connect and disconnect.
C28_LastSetpointIsLastAcceptedWrite ==
    /\ [](\A n \in DOMAIN mfcs : mfcs[n].last_setpoint = setpoint[n])
    /\ [][/\ (Calls(SetOps) /\ call'["main"].result = "ok") =>
               /\ call'["main"].trace = <<Ev("write", Mfc(call'["main"].arg), call'["main"].trace[1].val, TRUE)>>
               /\ LastSetpoints' = [LastSetpoints EXCEPT ![call'["main"].arg] = call'["main"].trace[1].val]
          /\ (Calls(SetOps) /\ call'["main"].result # "ok") =>
               /\ \A i \in 1..Len(call'["main"].trace) : ~call'["main"].trace[i].ok
               /\ LastSetpoints' = LastSetpoints
          /\ Calls({"connect", "disconnect"}) => LastSetpoints' = LastSetpoints]_vars

\* C28 witness: a device that was commanded to a nonzero setpoint and
\* disconnected has been connected again and still holds that setpoint.
C28_Witness ==
    /\ MainCall.op = "connect"
    /\ MainCall.arg[1] = "mfc"
    /\ Tr[1].val = None
    /\ is_connected(mfcs[MainCall.arg[2]])
    /\ mfcs[MainCall.arg[2]].last_setpoint # 0

\* The devices a bulk read read, in the order it read them.
ReadDevices(c) == [i \in 1..Len(c.trace) |-> c.trace[i].dev[2]]

\* C29: check_all_flows_zero(threshold) reads the native flow of each
\* connected controllable device, in registry order, and of no other; it
\* returns, without raising, True exactly when every one of those reads
\* succeeded with a value of absolute value at most the threshold (so True
\* when no device is connected), and it leaves every device, both
\* collections and every device-side setpoint unchanged.
C29_FlowsZeroIffAllWithinThreshold ==
    [][Calls({"check_all_flows_zero"}) =>
         LET c == call'["main"] IN
         /\ c.result = "ok"
         /\ ReadDevices(c) = SelectSeq(mfcs_order, LAMBDA n : is_connected(mfcs[n]))
         /\ c.value = (\A i \in 1..Len(c.trace) : c.trace[i].ok /\ ~RLess(c.arg, RAbs(c.trace[i].val)))
         /\ Registry' = Registry]_vars

\* C29 witness: of two connected devices the first read failed, the second
\* was read after it and measured no flow, and the result is False.
C29_Witness ==
    /\ MainCall.op = "check_all_flows_zero"
    /\ Len(mfcs_order) = 2
    /\ Len(Tr) = 2
    /\ ~Tr[1].ok
    /\ Tr[2].ok /\ Tr[2].val = Float(0)
    /\ MainCall.value = FALSE

\* C30: read_all_flows() returns, without raising, a dictionary whose keys
\* are exactly the connected controllable devices; the entry of a device
\* whose read succeeded is its reading converted by its calibration, the
\* entry of a device whose read returned no data or failed in the transport
\* is NaN; every device, both collections and every device-side setpoint are
\* unchanged.
C30_ReadAllFlowsCoversConnected ==
    [][Calls({"read_all_flows"}) =>
         LET c == call'["main"] IN
         /\ c.result = "ok"
         /\ DOMAIN c.value = ConnectedMfcs
         /\ ReadDevices(c) = SelectSeq(mfcs_order, LAMBDA n : is_connected(mfcs[n]))
         /\ \A i \in 1..Len(c.trace) :
               c.value[c.trace[i].dev[2]] = IF c.trace[i].ok
                                            THEN mfc_to_real(CalibrationOf(mfcs[c.trace[i].dev[2]]), c.trace[i].val)
                                            ELSE NaN
         /\ Registry' = Registry]_vars

\* C30 witness: of two connected devices the first read failed and has a
\* NaN entry, the second was read after it and has a nonzero entry.
C30_Witness ==
    /\ MainCall.op = "read_all_flows"
    /\ Len(mfcs_order) = 2
    /\ Len(Tr) = 2
    /\ ~Tr[1].ok /\ MainCall.value[Tr[1].dev[2]] = NaN
    /\ Tr[2].ok /\ MainCall.value[Tr[2].dev[2]] \notin {NaN, Float(0)}
    /\ DOMAIN MainCall.value = {Tr[1].dev[2], Tr[2].dev[2]}

====
